---- MODULE Spec2Model ----
(***************************************************************************)
(* A model of cuso, the multivariate Coppersmith solver: the data model    *)
(* (BoundSet, RelationIdeal), the input stage of find_small_roots and the  *)
(* solver orchestration (AutomatedSolver, AutomatedPartialSolver and the   *)
(* Linear, Groebner and Coppersmith partial solvers).                      *)
(*                                                                         *)
(* Python's None is the empty tuple and a present value v is <<v>>, so     *)
(* that an optional integer is always a tuple.                             *)
(***************************************************************************)
EXTENDS Integers, Sequences, FiniteSets, TLC

VARIABLES
    \* BoundSet.check
    bounds, solution, check_result,
    \* RelationIdeal.__add__ / __mul__
    J1, J2, J_result,
    \* find_small_roots and the solvers
    stack, ret, last_return, result, shift_poly_strategy,
    \* parse_relations and parse_bounds
    parsed, parsed_bounds,
    \* ChainConverter.run and the solution converters
    converted, images, preimages,
    \* RelationIdealGenerator.run
    base_relations, heap, yielded, generator,
    \* OptimalShiftPolys._get_shift_polys_for_ideal
    monomials, shift_polys, batches, shift_gen,
    \* LatticeReduction.run
    lattice, reduction, red_lattice,
    \* HastadHowgraveGraham.recover_int_relations
    hhg, int_relations,
    \* PrimalRecovery.run
    recovery, primal_result,
    \* LinearSolver._recover_short_vectors (lattice enumeration)
    enum, partial_solns, linear_result,
    \* GroebnerSolver.solve
    groebner, groebner_result,
    \* AutomatedSolver._get_unknown_moduli
    um_call, um_result,
    \* Flatter
    flatter, red_basis,
    \* GraphShiftPolys._refine_shift_polys
    refinement, refined,
    \* CoppersmithSolver.__init__
    solver_config, strategies,
    \* PrimalLatticeBuilder.run
    builder, built,
    \* utils.py: the generator of weighted_combinations
    combinations

boundVars == <<bounds, solution, check_result>>
idealVars == <<J1, J2, J_result>>
solverVars == <<stack, ret, last_return, result, shift_poly_strategy>>
parseVars == <<parsed, parsed_bounds>>
convVars == <<converted, images, preimages>>
genVars == <<base_relations, heap, yielded, generator>>
shiftVars == <<monomials, shift_polys, batches, shift_gen>>
reductionVars == <<lattice, reduction, red_lattice>>
hhgVars == <<hhg, int_relations>>
primalVars == <<recovery, primal_result>>
enumVars == <<enum, partial_solns, linear_result>>
groebnerVars == <<groebner, groebner_result>>
moduliVars == <<um_call, um_result>>
flatterVars == <<flatter, red_basis>>
graphVars == <<refinement, refined>>
configVars == <<solver_config, strategies>>
builderVars == <<builder, built>>
comboVars == <<combinations>>
stageVars == <<genVars, shiftVars, reductionVars, hhgVars, primalVars, enumVars, groebnerVars, moduliVars, flatterVars, graphVars, configVars, builderVars, comboVars>>
vars == <<bounds, solution, check_result, J1, J2, J_result,
          stack, ret, last_return, result, shift_poly_strategy, parsed, parsed_bounds,
          converted, images, preimages,
          base_relations, heap, yielded, generator,
          monomials, shift_polys, batches, shift_gen,
          lattice, reduction, red_lattice,
          hhg, int_relations,
          recovery, primal_result,
          enum, partial_solns, linear_result,
          groebner, groebner_result,
          um_call, um_result,
          flatter, red_basis,
          refinement, refined,
          solver_config, strategies,
          builder, built,
          combinations>>

None == <<>>
Some(v) == <<v>>

Abs(n) == IF n < 0 THEN -n ELSE n
Min(a, b) == IF a <= b THEN a ELSE b
Max(a, b) == IF a >= b THEN a ELSE b

RECURSIVE gcd(_, _)
gcd(a, b) == IF b = 0 THEN Abs(a) ELSE gcd(b, a % Abs(b))

lcm(a, b) == IF a = 0 \/ b = 0 THEN 0 ELSE Abs(a * b) \div gcd(a, b)

\* ------------------------------------------------------------------------
\* Bounds of the model
\* ------------------------------------------------------------------------
MaxBound == 2
MaxModulus == 6

\* ------------------------------------------------------------------------
\* data/bounds/bound.py, data/bounds/bound_set.py
\* ------------------------------------------------------------------------
Variables == {"x", "y"}

\* A Bound: lower and upper are optional integers.
Bound(lower, upper) == [lower |-> lower, upper |-> upper]

BoundContainsLoose(bound, value) ==
    IF bound.lower # None /\ value < bound.lower[1] THEN FALSE
    ELSE IF bound.upper # None /\ value > bound.upper[1] THEN FALSE
    ELSE TRUE

\* Bound.__contains__
BoundContains(bound, value) ==
    IF bound.lower # None /\ value <= bound.lower[1] THEN FALSE
    ELSE IF bound.upper # None /\ value >= bound.upper[1] THEN FALSE
    ELSE TRUE

\* BoundSet.check: a BoundSet and a solution are functions from the
\* variables they hold to Bounds and to integers.
BoundSetCheck(bs, soln) ==
    \A xi \in DOMAIN bs : xi \in DOMAIN soln => BoundContains(bs[xi], soln[xi])

OptBounds == {None} \cup {Some(v) : v \in -MaxBound..MaxBound}
AllBounds == {Bound(l, u) : l \in OptBounds, u \in OptBounds}
Values == (-MaxBound - 1)..(MaxBound + 1)

PartialFunctions(D, R) == UNION {[S -> R] : S \in SUBSET D}

InitBounds ==
    /\ bounds \in PartialFunctions(Variables, {Bound(None, Some(1)), Bound(Some(-1), None)}
                     \cup {Bound(Some(l), Some(u)) : l \in {-MaxBound, 0}, u \in {0, MaxBound}})
    /\ solution = <<>>
    /\ check_result = "unset"

CheckBounds ==
    /\ check_result = "unset"
    /\ \E s \in PartialFunctions(Variables, Values) :
          /\ solution' = s
          /\ check_result' = IF BoundSetCheck(bounds, s) THEN "true" ELSE "false"
    /\ UNCHANGED bounds

\* ------------------------------------------------------------------------
\* data/relation_ideal.py
\* ------------------------------------------------------------------------
\* A RelationIdeal: the generators of the ideal, its ring and its modulus.
Rings == {"ZZ[x]", "ZZ[x,y]"}
Generators == {"f", "g"}
RelationIdeal(polynomials, ring, modulus) ==
    [ideal |-> polynomials, ring |-> ring, modulus |-> modulus]

IdealProduct(I1, I2) == {<<f, g>> : f \in I1, g \in I2}

EmptyIdeal == RelationIdeal({}, "", None)
Raised(e) == [exc |-> e, value |-> EmptyIdeal]
Returned(J) == [exc |-> "", value |-> J]

\* RelationIdeal.__add__
RelationIdealAdd(self, other) ==
    IF self.ring # other.ring THEN Raised("ValueError")
    ELSE LET new_ideal == self.ideal \cup other.ideal
             new_modulus ==
                 IF self.modulus = None THEN other.modulus
                 ELSE IF other.modulus = None THEN self.modulus
                 ELSE Some(gcd(self.modulus[1], other.modulus[1]))
         IN  Returned(RelationIdeal(new_ideal, self.ring, new_modulus))

\* RelationIdeal.__mul__
RelationIdealMul(self, other) ==
    IF self.ring # other.ring THEN Raised("ValueError")
    ELSE LET new_ideal == IdealProduct(self.ideal, other.ideal)
             new_modulus ==
                 IF self.modulus = None THEN other.modulus
                 ELSE IF other.modulus = None THEN self.modulus
                 ELSE Some(self.modulus[1] * other.modulus[1])
         IN  Returned(RelationIdeal(new_ideal, self.ring, new_modulus))

OptModuli == {None} \cup {Some(m) : m \in 1..MaxModulus}
IdealInputs == {RelationIdeal(p, r, m) : p \in {{"f"}, {"f", "g"}}, r \in Rings, m \in OptModuli}

NoResult == [op |-> "none", exc |-> "", value |-> EmptyIdeal]

InitIdeal ==
    /\ J1 \in IdealInputs
    /\ J2 \in IdealInputs
    /\ J_result = NoResult

AddIdeals ==
    /\ J_result = NoResult
    /\ J_result' = [op |-> "add"] @@ RelationIdealAdd(J1, J2)
    /\ UNCHANGED <<J1, J2>>

MulIdeals ==
    /\ J_result = NoResult
    /\ J_result' = [op |-> "mul"] @@ RelationIdealMul(J1, J2)
    /\ UNCHANGED <<J1, J2>>

\* ------------------------------------------------------------------------
\* Polynomials, moduli and relations (data/relations/relation.py,
\* data/relations/relation_set.py).  A polynomial is a*x + b*y + c over ZZ;
\* the ring of a problem is the set of its generators.  A modulus is None,
\* a known integer, the symbolic k*p (p an unknown modulus), or the constant
\* expression that k*p becomes once p has been substituted.
\* ------------------------------------------------------------------------
Poly(a, b, c) == [x |-> a, y |-> b, c |-> c]
Coef(f, v) == IF v = "x" THEN f.x ELSE f.y
IsZero(f) == f.x = 0 /\ f.y = 0 /\ f.c = 0
PolyVars(f) == {v \in Variables : Coef(f, v) # 0}

Term(f, soln, v) == IF v \in DOMAIN soln THEN Coef(f, v) * soln[v] ELSE 0
Keep(f, soln, v) == IF v \in DOMAIN soln THEN 0 ELSE Coef(f, v)
\* polynomial.subs(soln)
PolySubs(f, soln) ==
    Poly(Keep(f, soln, "x"), Keep(f, soln, "y"),
         f.c + Term(f, soln, "x") + Term(f, soln, "y"))

NoModulus == [kind |-> "none", val |-> 0]
IntModulus(n) == [kind |-> "int", val |-> n]
SymModulus(k) == [kind |-> "sym", val |-> k]
ExprModulus(n) == [kind |-> "expr", val |-> n]

Relation(polynomial, modulus) == [polynomial |-> polynomial, modulus |-> modulus]

\* Relation.unknown_moduli
RelationUnknownModuli(rel) == IF rel.modulus.kind = "sym" THEN {"p"} ELSE {}

\* RelationSet.unknown_moduli
UnknownModuli(relations) ==
    UNION {RelationUnknownModuli(relations[j]) : j \in DOMAIN relations}

Restrict(f, S) == [k \in DOMAIN f \cap S |-> f[k]]
Merge(f, g) == [k \in DOMAIN f \cup DOMAIN g |-> IF k \in DOMAIN g THEN g[k] ELSE f[k]]

\* Relation.check: "true", "false", or the exception the modulo raises.
RelationCheck(rel, soln) ==
    LET value == PolySubs(rel.polynomial, soln).c
        mod_value == IF rel.modulus.kind = "sym" THEN rel.modulus.val * soln["p"]
                     ELSE rel.modulus.val
    IN  IF rel.modulus.kind = "none" THEN (IF value = 0 THEN "true" ELSE "false")
        ELSE IF mod_value = 0 THEN "ZeroDivisionError"
        ELSE IF value % Abs(mod_value) = 0 THEN "true" ELSE "false"

\* RelationSet.check: the first relation that is not satisfied decides.
RECURSIVE RelationSetCheckFrom(_, _, _)
RelationSetCheckFrom(relations, soln, j) ==
    IF j > Len(relations) THEN "true"
    ELSE LET r == RelationCheck(relations[j], soln)
         IN  IF r = "true" THEN RelationSetCheckFrom(relations, soln, j + 1) ELSE r

RelationSetCheck(relations, soln) == RelationSetCheckFrom(relations, soln, 1)

\* ------------------------------------------------------------------------
\* data/problem.py
\* ------------------------------------------------------------------------
Problem(ring, relations, bnds) == [ring |-> ring, relations |-> relations, bounds |-> bnds]

\* MultivariateCoppersmithProblem.check, for a SolutionSet of one solution
ProblemCheck(problem, soln) ==
    IF \E xi \in problem.ring : xi \notin DOMAIN soln THEN "false"
    ELSE IF \E pi \in UnknownModuli(problem.relations) : pi \notin DOMAIN soln THEN "false"
    ELSE IF ~BoundSetCheck(problem.bounds, soln) THEN "false"
    ELSE RelationSetCheck(problem.relations, soln)

\* ------------------------------------------------------------------------
\* strategy/problem_converter/recenter.py
\* ------------------------------------------------------------------------
\* RecenterConverter.run: center = (lbound + ubound) // 2
Centers(problem) ==
    [xi \in problem.ring |->
        (problem.bounds[xi].lower[1] + problem.bounds[xi].upper[1]) \div 2]

\* RecenterRelation.convert_polynomial_to_new: x = x_c + center
RecenterPoly(f, centers) ==
    Poly(f.x, f.y, f.c + Term(f, centers, "x") + Term(f, centers, "y"))

\* RecenterConverter._convert_bounds
RecenterBounds(bnds, centers) ==
    [k \in DOMAIN bnds |->
        IF k \in DOMAIN centers
        THEN Bound(Some(bnds[k].lower[1] - centers[k]), Some(bnds[k].upper[1] - centers[k]))
        ELSE bnds[k]]

RecenterProblem(problem) ==
    LET centers == Centers(problem)
    IN  Problem(problem.ring,
                [j \in DOMAIN problem.relations |->
                    Relation(RecenterPoly(problem.relations[j].polynomial, centers),
                             problem.relations[j].modulus)],
                RecenterBounds(problem.bounds, centers))

\* RecenterSolution.convert_solution_to_old
ConvertSolutionToOld(soln, centers) ==
    [k \in DOMAIN soln |-> IF k \in DOMAIN centers THEN soln[k] + centers[k] ELSE soln[k]]

\* SolutionConverter.convert_to_old
ConvertToOld(solns, centers) ==
    [j \in DOMAIN solns |-> ConvertSolutionToOld(solns[j], centers)]

\* ------------------------------------------------------------------------
\* solver/multivariate_solver/full/automated.py: helpers of AutomatedSolver
\* ------------------------------------------------------------------------
\* The positions of the relations that int(rel.polynomial.subs(root)) accepts:
\* those whose polynomial is constant once the known variables are substituted.
Evaluable(problem, soln) ==
    {j \in DOMAIN problem.relations :
        PolyVars(PolySubs(problem.relations[j].polynomial,
                          Restrict(soln, problem.ring))) = {}}

RECURSIVE GcdOver(_, _)
GcdOver(S, f) ==
    IF S = {} THEN 0
    ELSE LET j == CHOOSE k \in S : TRUE IN gcd(GcdOver(S \ {j}, f), f[j])

\* AutomatedSolver._get_unknown_moduli: the solution extended by the value of
\* the unknown modulus, or NotImplementedError.
GetUnknownModuliOfAnyMultiple(problem, soln) ==
    LET rels == problem.relations
        root == Restrict(soln, problem.ring)
        with_p == {j \in Evaluable(problem, soln) : rels[j].modulus.kind = "sym"}
        eval_p == GcdOver(with_p, [j \in DOMAIN rels |-> PolySubs(rels[j].polynomial, root).c])
        mod_p == GcdOver(with_p, [j \in DOMAIN rels |-> rels[j].modulus.val])
    IN  IF UnknownModuli(rels) = {} THEN [raised |-> FALSE, soln |-> soln]
        ELSE IF mod_p = 0 THEN [raised |-> TRUE, soln |-> soln]
        ELSE [raised |-> FALSE, soln |-> Merge(soln, [k \in {"p"} |-> eval_p])]

GetUnknownModuli(problem, soln) ==
    LET rels == problem.relations
        root == Restrict(soln, problem.ring)
        with_p == {j \in Evaluable(problem, soln) : rels[j].modulus.kind = "sym"}
        eval_p == GcdOver(with_p, [j \in DOMAIN rels |-> PolySubs(rels[j].polynomial, root).c])
        mod_p == GcdOver(with_p, [j \in DOMAIN rels |-> rels[j].modulus.val])
    IN  IF UnknownModuli(rels) = {} THEN [raised |-> FALSE, soln |-> soln]
        ELSE IF mod_p # 1 THEN [raised |-> TRUE, soln |-> soln]
        ELSE [raised |-> FALSE, soln |-> Merge(soln, [k \in {"p"} |-> eval_p])]

\* The modulus of a relation of the sub-problem: rel.modulus.subs(solution)
SubModulus(modulus, soln) ==
    IF modulus.kind = "sym" /\ "p" \in DOMAIN soln
    THEN ExprModulus(modulus.val * soln["p"])
    ELSE modulus

RECURSIVE SubRelationsFrom(_, _, _)
SubRelationsFrom(relations, soln, j) ==
    IF j > Len(relations) THEN <<>>
    ELSE LET new_poly == PolySubs(relations[j].polynomial, soln)
             rest == SubRelationsFrom(relations, soln, j + 1)
         IN  IF IsZero(new_poly) THEN rest
             ELSE <<Relation(new_poly, SubModulus(relations[j].modulus, soln))>> \o rest

\* The sub-problem left in the ring of the old problem
SubProblemInOldRing(problem, soln) ==
    Problem(problem.ring,
            SubRelationsFrom(problem.relations, soln, 1),
            [k \in DOMAIN problem.bounds \ DOMAIN soln |-> problem.bounds[k]])

\* AutomatedSolver._get_remaining_unknowns: the problem in the variables the
\* partial solution does not assign.  Its relation list may be empty, which
\* RelationSet refuses.
SubProblem(problem, soln) ==
    Problem({xi \in problem.ring : xi \notin DOMAIN soln},
            SubRelationsFrom(problem.relations, soln, 1),
            [k \in DOMAIN problem.bounds \ DOMAIN soln |-> problem.bounds[k]])

\* ------------------------------------------------------------------------
\* What a call ends with: an exception, a list of solutions, or None.
\* ------------------------------------------------------------------------
Raise(e) == [kind |-> "raise", exc |-> e, value |-> <<>>]
Value(v) == [kind |-> "value", exc |-> "", value |-> v]
ReturnNone == [kind |-> "None", exc |-> "", value |-> <<>>]
SolveFailureError == "SolveFailureError"

\* [soln for soln in solns if bnds.check(soln)]
FilterBounds(solns, bnds) == SelectSeq(solns, LAMBDA soln : BoundSetCheck(bnds, soln))

\* ------------------------------------------------------------------------
\* solver/multivariate_solver/partial/linear.py
\* ------------------------------------------------------------------------
MaxCand == 2
EnumCap == 100

\* LinearSolver._get_linear_relations: the relations without a symbolic
\* modulus (every polynomial of the model has total degree <= 1), a modular
\* one reduced modulo its modulus.
LinearRelations(relations) ==
    {Relation(IF relations[j].modulus.kind = "none" THEN relations[j].polynomial
              ELSE Poly(relations[j].polynomial.x % relations[j].modulus.val,
                        relations[j].polynomial.y % relations[j].modulus.val,
                        relations[j].polynomial.c % relations[j].modulus.val),
              relations[j].modulus) :
        j \in {k \in DOMAIN relations : relations[k].modulus.kind \in {"none", "int"}}}

\* PrimalLatticeBuilder.run: the monomial columns of the lattice
LatticeMonomials(rels) ==
    UNION {PolyVars(r.polynomial) : r \in rels}
        \cup (IF \E r \in rels : r.polynomial.c # 0 THEN {"1"} ELSE {})

\* BoundSet.get_abs_bound of a column's monomial
AbsBound(bnds, m) ==
    IF m = "1" THEN 1 ELSE Max(Abs(bnds[m].lower[1]), Abs(bnds[m].upper[1]))

Entry(vec, m) == IF m \in DOMAIN vec THEN vec[m] ELSE 0

\* A vector of the reduced primal lattice is zero in the relation columns
\* (they are scaled by Infinity): it is a combination of the monomial rows
\* that every relation maps to 0, modulo the relation's modulus.
InLattice(vec, rel) ==
    LET value == rel.polynomial.x * Entry(vec, "x") + rel.polynomial.y * Entry(vec, "y")
                 + rel.polynomial.c * Entry(vec, "1")
    IN  IF rel.modulus.kind = "none" THEN value = 0 ELSE value % rel.modulus.val = 0

\* The vectors with infinity norm <= 1 after scaling that the reduction of
\* the lattice can produce.
MaxAbsBound(bnds, M) ==
    IF M \ {"1"} = {} THEN 1
    ELSE AbsBound(bnds, CHOOSE m \in M \ {"1"} :
                           \A n \in M \ {"1"} : AbsBound(bnds, n) <= AbsBound(bnds, m))

ShortVectorsOver(M, B, rels, bnds) ==
    {vec \in [M -> -B..B] :
        /\ \E m \in M : vec[m] # 0
        /\ \A m \in M : Abs(vec[m]) <= AbsBound(bnds, m)
        /\ \A r \in rels : InLattice(vec, r)}

ShortVectors(rels, bnds) ==
    UNION {ShortVectorsOver(M, MaxAbsBound(bnds, M), rels, bnds) :
              M \in {LatticeMonomials(rels)}}

\* The sign normalisation and the tests that _recover_short_vectors and its
\* callbackf apply to one vector.
Normalize(vec) ==
    IF "1" \in DOMAIN vec /\ vec["1"] = -1 THEN [m \in DOMAIN vec |-> -vec[m]] ELSE vec

PartialSoln(vec) == Restrict(Normalize(vec), DOMAIN vec \ {"1"})

Accepted(vec, bnds) ==
    /\ ~("1" \in DOMAIN vec /\ Normalize(vec)["1"] # 1)
    /\ BoundSetCheck(bnds, PartialSoln(vec))

RECURSIVE Callbackf(_, _)
Callbackf(cands, bnds) ==
    IF cands = <<>> THEN <<>>
    ELSE (IF Accepted(Head(cands), bnds) THEN <<PartialSoln(Head(cands))>> ELSE <<>>)
         \o Callbackf(Tail(cands), bnds)

SeqsUpTo(S, n) == UNION {[1..k -> S] : k \in 0..n}

\* LinearSolver._recover_short_vectors once the lattice is reduced and its
\* short vectors V are known
RecoverFrom(V, bnds) ==
    {Raise(SolveFailureError)}
        \cup {Value(IF Accepted(vec, bnds) THEN <<PartialSoln(vec)>> ELSE <<>>) : vec \in V}
        \cup (IF Cardinality(V) < 2 THEN {}
              ELSE {IF Len(Callbackf(c[1], bnds)) + c[2] > EnumCap
                    THEN Raise(SolveFailureError)
                    ELSE Value(Callbackf(c[1], bnds)) :
                        c \in SeqsUpTo(V, MaxCand) \X {0, EnumCap}})

\* LinearSolver._recover_short_vectors.  (Here and below a comprehension over
\* a singleton names a value that is computed once.)
RecoverShortVectors(rels, bnds) ==
    UNION {RecoverFrom(V, b) : V \in {ShortVectors(rels, bnds)}, b \in {bnds}}

\* LinearSolver.solve on the recentered problem prob
LinearSolverRun(prob, centers) ==
    UNION {IF rels = {} THEN {Raise(SolveFailureError)}
           ELSE {IF o.kind = "raise" THEN o
                 ELSE Value(ConvertToOld(FilterBounds(o.value, prob.bounds), centers)) :
                     o \in RecoverShortVectors(rels, prob.bounds)} :
              rels \in {LinearRelations(prob.relations)}}

\* LinearSolver.solve
LinearSolverSolve(problem) ==
    UNION {LinearSolverRun(prob, centers) :
              prob \in {RecenterProblem(problem)}, centers \in {Centers(problem)}}

\* ------------------------------------------------------------------------
\* solver/multivariate_solver/partial/groebner.py
\* ------------------------------------------------------------------------
\* int() of the rational n/d: truncation towards zero
TruncDiv(n, d) ==
    IF (n >= 0) = (d > 0) THEN Abs(n) \div Abs(d) ELSE -(Abs(n) \div Abs(d))

RECURSIVE SeqOfSet(_)
SeqOfSet(S) ==
    IF S = {} THEN <<>>
    ELSE LET r == CHOOSE v \in S : \A w \in S : v <= w IN <<r>> \o SeqOfSet(S \ {r})

RECURSIVE IntPolysFrom(_, _)
IntPolysFrom(relations, j) ==
    IF j > Len(relations) THEN <<>>
    ELSE (IF relations[j].modulus.kind = "none" THEN <<relations[j].polynomial>> ELSE <<>>)
         \o IntPolysFrom(relations, j + 1)

\* polys[0].roots() over ZZ, kept when every polynomial vanishes there
UnivariateRoots(polys, x) ==
    {r \in -Abs(polys[1].c)..Abs(polys[1].c) :
        /\ Coef(polys[1], x) # 0
        /\ \A j \in DOMAIN polys : Coef(polys[j], x) * r + polys[j].c = 0}

Det(f, g) == f.x * g.y - f.y * g.x

\* The variety over QQ of linear polynomials in the generators that occur,
\* by Cramer's rule: a sequence of at most one point, each coordinate a
\* pair <<numerator, denominator>>; "positive" when the ideal has positive
\* dimension.
Variety(polys, used) ==
    LET J == DOMAIN polys
    IN  IF used = {} THEN [dim |-> "zero", points |-> <<>>]
        ELSE IF Cardinality(used) = 1 THEN
            LET x == CHOOSE v \in used : TRUE
                j == CHOOSE k \in J : Coef(polys[k], x) # 0
                a == Coef(polys[j], x)
            IN  IF \A k \in J : Coef(polys[k], x) * (-polys[j].c) + polys[k].c * a = 0
                THEN [dim |-> "zero", points |-> <<[v \in used |-> <<-polys[j].c, a>>]>>]
                ELSE [dim |-> "zero", points |-> <<>>]
        ELSE IF \A j \in J, k \in J : Det(polys[j], polys[k]) = 0 THEN
            IF \A j \in J, k \in J :
                   /\ polys[j].x * polys[k].c = polys[k].x * polys[j].c
                   /\ polys[j].y * polys[k].c = polys[k].y * polys[j].c
            THEN [dim |-> "positive", points |-> <<>>]
            ELSE [dim |-> "zero", points |-> <<>>]
        ELSE
            LET pr == CHOOSE q \in J \X J : Det(polys[q[1]], polys[q[2]]) # 0
                f == polys[pr[1]]
                g == polys[pr[2]]
                D == Det(f, g)
                Nx == f.y * g.c - f.c * g.y
                Ny == f.c * g.x - f.x * g.c
            IN  IF \A k \in J : polys[k].x * Nx + polys[k].y * Ny + polys[k].c * D = 0
                THEN [dim |-> "zero", points |-> <<[v \in used |->
                                                     IF v = "x" THEN <<Nx, D>> ELSE <<Ny, D>>]>>]
                ELSE [dim |-> "zero", points |-> <<>>]

\* GroebnerSolver._get_partial_roots
GetPartialRoots(problem) ==
    LET polys == IntPolysFrom(problem.relations, 1)
        used == UNION {PolyVars(polys[j]) : j \in DOMAIN polys}
        variety == Variety(polys, used)
    IN  IF polys = <<>> THEN Raise(SolveFailureError)
        ELSE IF Cardinality(problem.ring) = 1 THEN
            LET x == CHOOSE v \in problem.ring : TRUE
                roots == SeqOfSet(UnivariateRoots(polys, x))
            IN  Value([j \in DOMAIN roots |-> [v \in {x} |-> roots[j]]])
        ELSE IF variety.dim = "positive" \/ variety.points = <<>>
        THEN Raise(SolveFailureError)
        ELSE Value([j \in DOMAIN variety.points |->
                       [v \in used |-> TruncDiv(variety.points[j][v][1],
                                                variety.points[j][v][2])]])

\* GroebnerSolver.solve
GroebnerSolverSolve(problem) ==
    LET roots == GetPartialRoots(problem)
    IN  IF roots.kind = "raise" THEN roots
        ELSE Value(FilterBounds(roots.value, problem.bounds))

\* ------------------------------------------------------------------------
\* solver/multivariate_solver/partial/coppersmith.py and the root recovery
\* strategies (strategy/root_recovery/primal.py, hastad_howgrave_graham.py)
\* ------------------------------------------------------------------------
MaxNest == 1

\* CoppersmithSolver.__init__: the primal strategy is used when no relation
\* has a modulus (neither a known multiple nor a symbolic modulus).
UsePrimalStrategy(problem) ==
    \A j \in DOMAIN problem.relations : problem.relations[j].modulus.kind = "none"

\* PrimalRecovery.get_solution_from_single_vector
GetSolutionFromSingleVector(vec, variables) ==
    LET flipped == IF vec["1"] < 0 THEN [m \in DOMAIN vec |-> -vec[m]] ELSE vec
        root == Restrict(flipped, variables)
    IN  IF DOMAIN root = {} THEN <<>>
        ELSE IF flipped["1"] # 1 THEN <<>>
        ELSE <<root>>

\* PrimalRecovery.run on the reduced primal lattice of one shift batch
PrimalRecoveryOver(rels, M, prob) ==
    {Raise(SolveFailureError)}
    \cup (IF "1" \in M /\ prob.ring \subseteq M
          THEN {Value(GetSolutionFromSingleVector(vec, prob.ring)) :
                   vec \in ShortVectors(rels, prob.bounds)}
          ELSE {})

PrimalRecoveryRun(prob) ==
    UNION {PrimalRecoveryOver(rels, LatticeMonomials(rels), prob) :
              rels \in {{prob.relations[j] : j \in DOMAIN prob.relations}}}

\* BoundSet.get_lower_bound of a modulus
ModulusLowerBound(modulus, bnds) ==
    IF modulus.kind = "sym" THEN modulus.val * bnds["p"].lower[1] ELSE modulus.val

\* The L1 norm of the scaled dual lattice vector of the polynomial h
L1Norm(h, bnds) ==
    (IF h.x = 0 THEN 0 ELSE Abs(h.x) * AbsBound(bnds, "x"))
    + (IF h.y = 0 THEN 0 ELSE Abs(h.y) * AbsBound(bnds, "y"))
    + Abs(h.c)

RECURSIVE Combination(_, _, _)
Combination(S, t, coefs) ==
    IF S = {} THEN 0
    ELSE LET j == CHOOSE k \in S : TRUE
         IN  t[j] * coefs[j] + Combination(S \ {j}, t, coefs)

\* h lies in the lattice of the shift relations of the modular relations
\* mods: it is an integer combination of their polynomials and, when the
\* modulus is a known integer, of its multiples.
InDualLattice(h, relations, mods, modulus) ==
    LET T == IF modulus.kind = "sym" THEN -2..2 ELSE 0..(modulus.val - 1)
        Zero(d) == IF modulus.kind = "sym" THEN d = 0 ELSE d % modulus.val = 0
    IN  \E t \in [mods -> T] :
            \A m \in {"x", "y", "c"} :
                Zero(h[m] - Combination(mods, t, [j \in mods |-> relations[j].polynomial[m]]))

\* The modulus of the first modular relation
FirstModulus(rels) ==
    rels[CHOOSE j \in DOMAIN rels :
            /\ rels[j].modulus.kind # "none"
            /\ \A k \in DOMAIN rels : rels[k].modulus.kind # "none" => j <= k].modulus

\* The polynomials of L1 norm < low in the lattice of the relations mods
ShortRelations(prob, modulus, mods, low) ==
    LET R(v) == IF v \in prob.ring
                THEN -((low - 1) \div AbsBound(prob.bounds, v))..((low - 1) \div AbsBound(prob.bounds, v))
                ELSE {0}
    IN  {h \in {Poly(a, b, c) : a \in R("x"), b \in R("y"), c \in (1 - low)..(low - 1)} :
            /\ ~IsZero(h)
            /\ L1Norm(h, prob.bounds) < low
            /\ InDualLattice(h, prob.relations, mods, modulus)}

\* HastadHowgraveGraham.recover_int_relations: the polynomials of the dual
\* lattice whose L1 norm is below the lower bound of the modulus.
RecoverIntRelations(prob) ==
    UNION {ShortRelations(prob, modulus,
                          {j \in DOMAIN prob.relations : prob.relations[j].modulus = modulus},
                          ModulusLowerBound(modulus, prob.bounds)) :
              modulus \in {FirstModulus(prob.relations)}}

Nested(problem) == [kind |-> "nested", exc |-> "", value |-> problem]

\* HastadHowgraveGraham.run up to the construction of the nested solver
HastadHowgraveGrahamRun(prob, nest) ==
    {Raise(SolveFailureError)}
    \cup (IF nest < MaxNest
          THEN {Nested(Problem(prob.ring,
                               prob.relations \o <<Relation(h, NoModulus)>>,
                               prob.bounds)) : h \in RecoverIntRelations(prob)}
          ELSE {})

\* The body of the loop of CoppersmithSolver.solve for one shift batch
ShiftBatchOn(prob, centers, primal, nest) ==
    IF primal
    THEN {IF o.kind = "raise" THEN o ELSE Value(ConvertToOld(o.value, centers)) :
             o \in PrimalRecoveryRun(prob)}
    ELSE HastadHowgraveGrahamRun(prob, nest)

ShiftBatch(problem, nest) ==
    UNION {ShiftBatchOn(prob, centers, UsePrimalStrategy(problem), nest) :
              prob \in {RecenterProblem(problem)}, centers \in {Centers(problem)}}

\* ------------------------------------------------------------------------
\* The solvers as a state machine.  stack holds the solver calls in progress,
\* innermost last; ret is what the call that just ended hands to its caller;
\* last_return remembers the call that ended last; result is what
\* find_small_roots ends with; shift_poly_strategy is the number of batches
\* the ShiftPolyStrategy yields, Unbounded for OptimalShiftPolys.
\* ------------------------------------------------------------------------
MaxBatch == 2
Unbounded == -1

solversSwapped == <<"GroebnerSolver", "LinearSolver", "CoppersmithSolver">>
solvers == <<"LinearSolver", "GroebnerSolver", "CoppersmithSolver">>

Frame(cls, problem, pc) ==
    [cls |-> cls, problem |-> problem, pc |-> pc, idx |-> 1, solns |-> <<>>,
     ext_solns |-> <<>>, batch |-> 0, log |-> <<>>]

NoRet == [kind |-> "none", exc |-> "", value |-> <<>>]
Running == [kind |-> "running", exc |-> "", value |-> <<>>]
NoReturn == [cls |-> "none", problem |-> <<>>, outcome |-> NoRet, log |-> <<>>]

Top == stack[Len(stack)]
Pop == SubSeq(stack, 1, Len(stack) - 1)
SetTop(f) == [stack EXCEPT ![Len(stack)] = f]

\* The top call ends with outcome.
Return(f, outcome) ==
    /\ stack' = Pop
    /\ ret' = outcome
    /\ last_return' = [cls |-> f.cls, problem |-> f.problem, outcome |-> outcome, log |-> f.log]

BoundOf(l, u) == Bound(Some(l), Some(u))
SymBounds == [v \in Variables |-> BoundOf(-MaxBound, MaxBound)]

\* x - 1 = 0, y = 0 (mod p), MaxModulus = 0 (mod p)
UnknownModulusProblem ==
    Problem({"x", "y"},
            <<Relation(Poly(1, 0, -1), NoModulus), Relation(Poly(0, 1, 0), SymModulus(1)),
              Relation(Poly(0, 0, MaxModulus), SymModulus(1))>>,
            [v \in {"x", "y", "p"} |->
                IF v = "p" THEN BoundOf(1, MaxModulus) ELSE BoundOf(-MaxBound, MaxBound)])

\* x - MaxBound = 0: the root lies on the edge of the bounds
EdgeRootProblem ==
    Problem({"x"}, <<Relation(Poly(1, 0, -MaxBound), NoModulus)>>,
            [v \in {"x"} |-> BoundOf(-MaxBound, MaxBound)])

\* (MaxBound+1)*x + (2*MaxBound+3)*y = 3*MaxBound^2 + 4*MaxBound + 1 has no
\* root inside the bounds, and no short vector in its lattice
NoRootProblem ==
    Problem({"x", "y"},
            <<Relation(Poly(MaxBound + 1, 2 * MaxBound + 3,
                            -(3 * MaxBound * MaxBound + 4 * MaxBound + 1)), NoModulus)>>,
            SymBounds)

\* x + y - 1 = 0 and x - y - 1 = 0: the root (1, 0)
IntegerProblem ==
    Problem({"x", "y"},
            <<Relation(Poly(1, 1, -1), NoModulus), Relation(Poly(1, -1, -1), NoModulus)>>,
            SymBounds)

\* x - 1 = 0 (mod MaxModulus)
ModularProblem ==
    Problem({"x"}, <<Relation(Poly(1, 0, -1), IntModulus(MaxModulus))>>,
            [v \in {"x"} |-> BoundOf(-MaxBound, MaxBound)])

\* x - MaxBound - 1 = 0 (mod MaxModulus): no root inside the bounds
NoModularRootProblem ==
    Problem({"x"}, <<Relation(Poly(1, 0, -MaxBound - 1), IntModulus(MaxModulus))>>,
            [v \in {"x"} |-> BoundOf(-MaxBound, MaxBound)])

\* x - 1 = 0 in a ring with a second generator that no relation constrains
FreeVariableProblem ==
    Problem({"x", "y"}, <<Relation(Poly(1, 0, -1), NoModulus)>>, SymBounds)

\* x + y - 1 = 0: a line of roots
LineProblem ==
    Problem({"x", "y"}, <<Relation(Poly(1, 1, -1), NoModulus)>>, SymBounds)

Problems ==
    {UnknownModulusProblem, EdgeRootProblem, NoRootProblem, IntegerProblem,
     ModularProblem, NoModularRootProblem, FreeVariableProblem, LineProblem}

InitSolver ==
    /\ stack \in {<<Frame("AutomatedSolver", problem, "solve")>> : problem \in Problems}
    /\ ret = NoRet
    /\ last_return = NoReturn
    /\ result = Running
    /\ shift_poly_strategy \in {Unbounded} \cup 0..MaxBatch

Active(cls, pc) ==
    /\ result = Running
    /\ stack # <<>>
    /\ Top.cls = cls
    /\ Top.pc = pc

\* AutomatedSolver.solve: construct the AutomatedPartialSolver and call it
AutomatedSolver_solve ==
    /\ Active("AutomatedSolver", "solve")
    /\ stack' = Append(SetTop([Top EXCEPT !.pc = "expand"]),
                       Frame("AutomatedPartialSolver", Top.problem, "try"))
    /\ UNCHANGED <<ret, last_return, result, shift_poly_strategy, boundVars, idealVars, parseVars, convVars, stageVars>>

\* AutomatedSolver._expand_solution, first half: the unknown moduli of every
\* partial solution.  No exception of the partial solver is caught; iterating
\* None raises TypeError.
AutomatedSolver_expand_solution ==
    /\ Active("AutomatedSolver", "expand")
    /\ ret.kind # "none"
    /\ \E ext \in {[j \in DOMAIN ret.value |-> GetUnknownModuli(Top.problem, ret.value[j])]} :
           IF ret.kind = "raise" THEN Return(Top, ret)
           ELSE IF ret.kind = "None" THEN Return(Top, Raise("TypeError"))
           ELSE IF \E j \in DOMAIN ext : ext[j].raised
           THEN Return(Top, Raise("NotImplementedError"))
           ELSE /\ stack' = SetTop([Top EXCEPT !.pc = "remaining",
                                               !.solns = [j \in DOMAIN ext |-> ext[j].soln]])
                /\ ret' = NoRet
                /\ UNCHANGED last_return
    /\ UNCHANGED <<result, shift_poly_strategy, boundVars, idealVars, parseVars, convVars, stageVars>>

\* AutomatedSolver._get_remaining_unknowns up to the recursive call, for the
\* next solution of _expand_solution's loop; the end of the loop returns.
AutomatedSolver_get_remaining_unknowns ==
    /\ Active("AutomatedSolver", "remaining")
    /\ IF Top.idx > Len(Top.solns) THEN Return(Top, Value(Top.ext_solns))
       ELSE \E soln \in {Top.solns[Top.idx]} :
            IF Top.problem.ring \subseteq DOMAIN soln THEN
                \E checked \in {ProblemCheck(Top.problem, soln)} :
                    IF checked = "ZeroDivisionError"
                    THEN Return(Top, Raise("ZeroDivisionError"))
                    ELSE /\ stack' = SetTop([Top EXCEPT
                                !.idx = @ + 1,
                                !.ext_solns = IF checked = "true" THEN Append(@, soln) ELSE @])
                         /\ UNCHANGED <<ret, last_return>>
            ELSE \E prob \in {SubProblem(Top.problem, soln)} :
                    IF prob.relations = <<>> THEN Return(Top, Raise("ValueError"))
                    ELSE /\ stack' = Append(SetTop([Top EXCEPT !.pc = "merge"]),
                                            Frame("AutomatedSolver", prob, "solve"))
                         /\ UNCHANGED <<ret, last_return>>
    /\ UNCHANGED <<result, shift_poly_strategy, boundVars, idealVars, parseVars, convVars, stageVars>>

\* AutomatedSolver._get_remaining_unknowns after the recursive call:
\* orig_soln.update(solution) for every solution of the sub-problem
AutomatedSolver_merge ==
    /\ Active("AutomatedSolver", "merge")
    /\ ret.kind # "none"
    /\ IF ret.kind = "raise" THEN Return(Top, ret)
       ELSE /\ stack' = SetTop([Top EXCEPT
                   !.pc = "remaining",
                   !.idx = @ + 1,
                   !.ext_solns = @ \o [j \in DOMAIN ret.value |->
                                          Merge(ret.value[j], Top.solns[Top.idx])]])
            /\ ret' = NoRet
            /\ UNCHANGED last_return
    /\ UNCHANGED <<result, shift_poly_strategy, boundVars, idealVars, parseVars, convVars, stageVars>>

\* One turn of the loop of AutomatedPartialSolver.solve for a solver whose
\* solve() ended with outcome: SolveFailureError moves on to the next solver
\* (or raises after the last one), anything else ends the call.
Logged(name, outcome) == [Top EXCEPT !.log = Append(@, <<name, outcome>>)]

Tried(name, outcome) ==
    IF outcome = Raise(SolveFailureError) THEN
        IF Top.idx = Len(solvers) THEN Return(Logged(name, outcome), Raise(SolveFailureError))
        ELSE /\ stack' = SetTop([Logged(name, outcome) EXCEPT !.idx = @ + 1, !.pc = "try"])
             /\ ret' = NoRet
             /\ UNCHANGED last_return
    ELSE Return(Logged(name, outcome), outcome)

LinearSolver_solve ==
    /\ Active("AutomatedPartialSolver", "try")
    /\ solvers[Top.idx] = "LinearSolver"
    /\ \E outcome \in LinearSolverSolve(Top.problem) : Tried("LinearSolver", outcome)
    /\ UNCHANGED <<result, shift_poly_strategy, boundVars, idealVars, parseVars, convVars, stageVars>>

GroebnerSolver_solve ==
    /\ Active("AutomatedPartialSolver", "try")
    /\ solvers[Top.idx] = "GroebnerSolver"
    /\ \E outcome \in {GroebnerSolverSolve(Top.problem)} : Tried("GroebnerSolver", outcome)
    /\ UNCHANGED <<result, shift_poly_strategy, boundVars, idealVars, parseVars, convVars, stageVars>>

\* The HastadHowgraveGraham recoveries in progress
Nest == Cardinality({j \in DOMAIN stack : stack[j].pc = "recover"})

\* batch counts the batches the loop has taken: exactly up to MaxBatch, and
\* by its parity beyond.
NextBatch(f) ==
    [f EXCEPT !.pc = "batch", !.batch = IF @ > MaxBatch THEN MaxBatch ELSE @ + 1]

\* CoppersmithSolver.solve up to the loop over the shift batches
CoppersmithSolver_solve ==
    /\ Active("AutomatedPartialSolver", "try")
    /\ solvers[Top.idx] = "CoppersmithSolver"
    /\ stack' = SetTop([Top EXCEPT !.pc = "batch", !.batch = 0])
    /\ UNCHANGED <<ret, last_return, result, shift_poly_strategy, boundVars, idealVars, parseVars, convVars, stageVars>>

\* One turn of the loop of CoppersmithSolver.solve: a SolveFailureError of
\* the batch is caught and the loop goes on; when the iterator is exhausted
\* the function ends without a return statement.
CoppersmithSolver_shift_batch ==
    /\ Active("AutomatedPartialSolver", "batch")
    /\ IF shift_poly_strategy # Unbounded /\ Top.batch >= shift_poly_strategy
       THEN Tried("CoppersmithSolver", ReturnNone)
       ELSE \E outcome \in ShiftBatch(Top.problem, Nest) :
               IF outcome.kind = "raise"
               THEN /\ stack' = SetTop(NextBatch(Top))
                    /\ UNCHANGED <<ret, last_return>>
               ELSE IF outcome.kind = "nested"
               THEN /\ stack' = Append(SetTop([Top EXCEPT !.pc = "recover"]),
                                       Frame("AutomatedPartialSolver", outcome.value, "try"))
                    /\ UNCHANGED <<ret, last_return>>
               ELSE Tried("CoppersmithSolver", outcome)
    /\ UNCHANGED <<result, shift_poly_strategy, boundVars, idealVars, parseVars, convVars, stageVars>>

\* The rest of the loop body once the AutomatedPartialSolver that
\* HastadHowgraveGraham.run started has ended: convert_to_old and return.
CoppersmithSolver_root_recovery ==
    /\ Active("AutomatedPartialSolver", "recover")
    /\ ret.kind # "none"
    /\ IF ret = Raise(SolveFailureError)
       THEN /\ stack' = SetTop(NextBatch(Top))
            /\ ret' = NoRet
            /\ UNCHANGED last_return
       ELSE IF ret.kind = "raise" THEN Tried("CoppersmithSolver", ret)
       ELSE IF ret.kind = "None" THEN Tried("CoppersmithSolver", Raise("TypeError"))
       ELSE Tried("CoppersmithSolver",
                  Value(ConvertToOld(ret.value, Centers(Top.problem))))
    /\ UNCHANGED <<result, shift_poly_strategy, boundVars, idealVars, parseVars, convVars, stageVars>>

\* find_small_roots: the list of the solutions of the outermost solver
find_small_roots ==
    /\ result = Running
    /\ stack = <<>>
    /\ ret.kind # "none"
    /\ result' = IF ret.kind = "raise" THEN ret
                 ELSE IF ret.kind = "None" THEN Raise("TypeError")
                 ELSE Value(ret.value)
    /\ ret' = NoRet
    /\ UNCHANGED <<stack, last_return, shift_poly_strategy, boundVars, idealVars, parseVars, convVars, stageVars>>

\* ------------------------------------------------------------------------
\* wrapper.py: parse_modulus, parse_moduli, parse_relations, do_varsub and
\* parse_bounds.  An argument is a record: t is its Python type ("None",
\* "int", "str", "list"), n the value of an int, items the elements of a list.
\* ------------------------------------------------------------------------
MaxRels == 2

PyNone == [t |-> "None", n |-> 0]
PyInt(n) == [t |-> "int", n |-> n]
PyStr == [t |-> "str", n |-> 0]
Arg(a) == [t |-> a.t, n |-> a.n, items |-> <<>>]
PyList(items) == [t |-> "list", n |-> 0, items |-> items]

\* Python's truth value of a scalar argument
Truthy(a) == (a.t = "int" /\ a.n # 0) \/ a.t = "str"

NoInfo == <<>>
ModulusInformation(is_symbolic, has_value, multiple) ==
    <<[is_symbolic |-> is_symbolic, has_value |-> has_value, multiple |-> multiple]>>
ParseError(e) == [exc |-> e, info |-> NoInfo]
ParseOk(info) == [exc |-> "", info |-> info]

\* parse_modulus
parse_modulus(modulus, modulus_multiple, modulus_lower_bound, modulus_upper_bound) ==
    IF ~(Truthy(modulus) \/ Truthy(modulus_multiple) \/ Truthy(modulus_lower_bound)
            \/ Truthy(modulus_upper_bound))
    THEN ParseOk(NoInfo)
    ELSE IF modulus.t = "int" THEN
        IF modulus_multiple.t # "None" \/ modulus_lower_bound.t # "None"
               \/ modulus_upper_bound.t # "None"
        THEN ParseError("ValueError")
        ELSE ParseOk(ModulusInformation(FALSE, TRUE, TRUE))
    ELSE IF modulus.t \in {"None", "str"} THEN
        IF modulus_lower_bound.t = "None" THEN ParseError("ValueError")
        ELSE ParseOk(ModulusInformation(TRUE, modulus.t = "str", Truthy(modulus_multiple)))
    ELSE ParseError("TypeError")

RECURSIVE LastListLen(_)
LastListLen(args) ==
    IF args = <<>> THEN 0
    ELSE IF args[Len(args)].t = "list" THEN Len(args[Len(args)].items)
    ELSE LastListLen(SubSeq(args, 1, Len(args) - 1))

ItemOf(arg, k) == IF arg.t = "None" THEN PyNone ELSE arg.items[k]

\* parse_moduli: is_list tells a list of moduli from a single shared modulus
parse_moduli(modulus, modulus_multiple, modulus_lower_bound, modulus_upper_bound) ==
    LET args == <<modulus, modulus_multiple, modulus_lower_bound, modulus_upper_bound>>
        num_moduli == LastListLen(args)
        each == [k \in 1..num_moduli |->
                    parse_modulus(ItemOf(args[1], k), ItemOf(args[2], k),
                                  ItemOf(args[3], k), ItemOf(args[4], k))]
        one == parse_modulus(modulus, modulus_multiple, modulus_lower_bound,
                             modulus_upper_bound)
    IN  IF \E j \in 1..4 : args[j].t = "list" THEN
            IF \E j \in 1..4 : args[j].t \notin {"list", "None"}
            THEN [exc |-> "ValueError", is_list |-> TRUE, infos |-> <<>>]
            ELSE IF \E j \in 1..4 : args[j].t = "list" /\ Len(args[j].items) # num_moduli
            THEN [exc |-> "ValueError", is_list |-> TRUE, infos |-> <<>>]
            ELSE IF \E k \in 1..num_moduli : each[k].exc # ""
            THEN [exc |-> each[CHOOSE k \in 1..num_moduli :
                                  each[k].exc # "" /\ \A l \in 1..(k - 1) : each[l].exc = ""].exc,
                  is_list |-> TRUE, infos |-> <<>>]
            ELSE [exc |-> "", is_list |-> TRUE, infos |-> [k \in 1..num_moduli |-> each[k].info]]
        ELSE [exc |-> one.exc, is_list |-> FALSE, infos |-> <<one.info>>]

\* A relation argument: type is the Python type of the object, base the base
\* ring of a polynomial.
Rel(type, base) == [type |-> type, base |-> base]
RelationKinds ==
    {Rel("Relation", ""), Rel("Expression", ""), Rel("Expression", "<"), Rel("str", ""),
     Rel("Polynomial_integer_dense_flint", "ZZ"), Rel("Polynomial_zmod_flint", "Z_N"),
     Rel("MPolynomial_libsingular", "ZZ"), Rel("MPolynomial_libsingular", "Z_N"),
     Rel("MPolynomial_libsingular", "QQ")}
PolynomialTypes ==
    {"Polynomial_integer_dense_flint", "Polynomial_zmod_flint", "MPolynomial_libsingular"}

\* The relations argument: a RelationSet, a single object, or a list
RelationsArgs ==
    {[container |-> "RelationSet", items |-> [k \in 1..n |-> Rel("Relation", "")]] :
        n \in 1..MaxRels}
    \cup {[container |-> "single", items |-> <<r>>] : r \in RelationKinds}
    \cup {[container |-> "list", items |-> rs] : rs \in SeqsUpTo(RelationKinds, MaxRels)}

\* The names of the generators of the relations' polynomial ring
RingVars == {{"x"}, {"x", "y"}, {"p", "q"}, {"p", "q", "p_0"}}

ParseFailure(e) ==
    [exc |-> e, n_gens |-> 0, inferred_is_none |-> TRUE, inferred_moduli |-> <<>>,
     ring_vars |-> {}, expect_modulus |-> FALSE, named_moduli |-> <<>>, moduli |-> <<>>]

\* The loop of parse_relations that picks the name of an unnamed symbolic
\* modulus ends unless the name p_0 is taken.
PicksName(ring_vars, num_moduli) ==
    \/ "p" \notin ring_vars /\ num_moduli = 1
    \/ "q" \notin ring_vars /\ num_moduli = 1
    \/ "p_0" \notin ring_vars

\* parse_relations, "Need to pick modulus name": the name of the branch taken
modname(ring_vars, num_moduli) ==
    IF "p" \notin ring_vars /\ num_moduli = 1 THEN "p"
    ELSE IF "q" \notin ring_vars /\ num_moduli = 1 THEN "q"
    ELSE "p_0"

\* The i of "inferred_moduli[i] = inferred_modulus" in the turn for the
\* k-th relation: the "i = 0" before the naming loop replaces the index
\* that enumerate gave
StoreIndex(k, ring_vars, num_moduli, has_value) ==
    IF has_value \/ (num_moduli = 1 /\ ("p" \notin ring_vars \/ "q" \notin ring_vars))
    THEN k ELSE 1

\* A ModulusInformation with its value: "int" for an integer, "given" for
\* the caller's symbol, a picked name, or "" for None
Information(info) ==
    IF info = NoInfo THEN NoInfo
    ELSE <<[is_symbolic |-> info[1].is_symbolic,
            value |-> IF ~info[1].is_symbolic THEN "int"
                      ELSE IF info[1].has_value THEN "given" ELSE "",
            multiple |-> info[1].multiple]>>

\* parse_relations, the loop "for i, (poly, inferred_modulus) in
\* enumerate(zip(polys, inferred_moduli))" from its k-th turn on, where no
\* naming loop diverges: named_moduli is inferred_moduli as the loop leaves
\* it, moduli the modulus of each polynomial ("" for None).  The relation
\* added for a multiple has the modulus of its polynomial.
RECURSIVE name_moduli(_, _, _, _)
name_moduli(inferred, k, acc, ring_vars) ==
    IF k > Len(inferred) THEN acc
    ELSE IF inferred[k] = NoInfo
    THEN name_moduli(inferred, k + 1, [acc EXCEPT !.moduli = Append(@, "")], ring_vars)
    ELSE IF ~inferred[k][1].is_symbolic
    THEN name_moduli(inferred, k + 1, [acc EXCEPT !.moduli = Append(@, "int")], ring_vars)
    ELSE name_moduli(inferred, k + 1,
            [named_moduli |->
                 [acc.named_moduli EXCEPT
                     ![StoreIndex(k, ring_vars, Len(inferred), inferred[k][1].has_value)] =
                         <<[is_symbolic |-> TRUE,
                            value |-> IF inferred[k][1].has_value THEN "given"
                                      ELSE modname(ring_vars, Len(inferred)),
                            multiple |-> inferred[k][1].multiple]>>],
             moduli |-> Append(acc.moduli,
                               IF inferred[k][1].has_value THEN "given"
                               ELSE modname(ring_vars, Len(inferred)))],
            ring_vars)

\* parse_relations: the exception raised, "diverges" when the naming loop
\* does not end, or the inferred moduli and the number of ring generators
parse_relations(relations, ring_vars, modulus, modulus_multiple, modulus_lower_bound, modulus_upper_bound) ==
    LET moduli == parse_moduli(modulus, modulus_multiple, modulus_lower_bound,
                               modulus_upper_bound)
        rels == relations.items
        inferred_moduli ==
            IF relations.container = "RelationSet" \/ moduli.is_list THEN moduli.infos
            ELSE [k \in DOMAIN rels |-> moduli.infos[1]]
        rel_types == {rels[k].type : k \in DOMAIN rels}
        rel_type == CHOOSE ty \in rel_types : TRUE
        expect_modulus ==
            /\ relations.container # "RelationSet"
            /\ \/ rel_type = "Expression"
               \/ rel_type \in PolynomialTypes /\ \A k \in DOMAIN rels : rels[k].base = "ZZ"
        no_inferred_moduli ==
            \/ ~moduli.is_list /\ relations.container = "RelationSet" /\ moduli.infos[1] = NoInfo
            \/ \A k \in DOMAIN inferred_moduli : inferred_moduli[k] = NoInfo
        unnamed == [named_moduli |-> [k \in DOMAIN inferred_moduli |->
                                         Information(inferred_moduli[k])],
                    moduli |-> <<>>]
        named == IF expect_modulus THEN name_moduli(inferred_moduli, 1, unnamed, ring_vars)
                 ELSE unnamed
        accepted == [exc |-> "", n_gens |-> Cardinality(ring_vars),
                     inferred_is_none |-> relations.container = "RelationSet" /\ ~moduli.is_list,
                     inferred_moduli |-> inferred_moduli,
                     ring_vars |-> ring_vars, expect_modulus |-> expect_modulus,
                     named_moduli |-> named.named_moduli, moduli |-> named.moduli]
    IN  IF moduli.exc # "" THEN ParseFailure(moduli.exc)
        ELSE IF relations.container = "single" /\ moduli.is_list /\ Len(moduli.infos) # 1
        THEN ParseFailure("ValueError")
        ELSE IF relations.container # "RelationSet" /\ Len(rels) = 0
        THEN ParseFailure("ValueError")
        ELSE IF relations.container # "RelationSet" /\ moduli.is_list
                /\ Len(moduli.infos) # Len(rels)
        THEN ParseFailure("ValueError")
        ELSE IF relations.container # "RelationSet" /\ Cardinality(rel_types) # 1
        THEN ParseFailure("TypeError")
        ELSE IF relations.container # "RelationSet"
                /\ rel_type \notin PolynomialTypes \cup {"Relation", "Expression"}
        THEN ParseFailure("TypeError")
        ELSE IF relations.container # "RelationSet" /\ rel_type \in PolynomialTypes
                /\ \E k \in DOMAIN rels : rels[k].base \notin {"ZZ", "Z_N"}
        THEN ParseFailure("TypeError")
        ELSE IF relations.container # "RelationSet" /\ rel_type = "Expression"
                /\ \E k \in DOMAIN rels : rels[k].base = "<"
        THEN ParseFailure("ValueError")
        ELSE IF ~expect_modulus /\ ~no_inferred_moduli THEN ParseFailure("ValueError")
        ELSE IF expect_modulus
                /\ \E k \in DOMAIN inferred_moduli :
                      /\ inferred_moduli[k] # NoInfo
                      /\ inferred_moduli[k][1].is_symbolic
                      /\ ~inferred_moduli[k][1].has_value
                      /\ ~PicksName(ring_vars, Len(inferred_moduli))
        THEN ParseFailure("diverges")
        ELSE accepted

\* do_varsub, by the type of its item: only the listed types are substituted
SubstitutedTypes ==
    {"None", "dict", "list", "Solution", "SolutionSet", "PartialSolution",
     "PartialSolutionSet", "Polynomial", "MPolynomial", "Expression"}
do_varsub(item_type) == IF item_type \in SubstitutedTypes THEN "" ELSE "TypeError"

\* The bounds argument: its Python type and the bounds it holds.  BoundSet
\* derives from UserDict, which is not a dict.
BoundsArg(type, values) == [type |-> type, values |-> values]
BoundValues == {0, 1, MaxBound}
BoundsArgs ==
    {BoundsArg(ty, vs) : ty \in {"BoundSet", "dict", "list"},
                         vs \in SeqsUpTo(BoundValues, MaxRels + 1)}
    \cup {BoundsArg("int", <<v>>) : v \in BoundValues}
    \cup {BoundsArg("str", <<>>)}

\* parse_bounds: the exception raised, or "" when a BoundSet is returned
parse_bounds(bnds, n_gens) ==
    IF bnds.type \in {"BoundSet", "dict"} THEN do_varsub(bnds.type)
    ELSE IF bnds.type = "list" THEN
        IF Len(bnds.values) # n_gens THEN "ValueError"
        ELSE IF \E k \in DOMAIN bnds.values : bnds.values[k] <= 0 THEN "ValueError"
        ELSE ""
    ELSE IF bnds.type = "int" THEN
        IF bnds.values[1] <= 0 THEN "ValueError" ELSE ""
    ELSE "TypeError"

\* What the caller passed to parse_relations, as far as the result is judged
\* by it: the representations in the relation list, whether the relations
\* carry their modulus, whether a modulus or a hint is given, and the lengths
\* of the lists of moduli.
Representation(rel) ==
    IF rel.type \in PolynomialTypes THEN "Polynomial" ELSE rel.type
CarryModulus(relations) ==
    \/ relations.container = "RelationSet"
    \/ \E k \in DOMAIN relations.items :
          \/ relations.items[k].type = "Relation"
          \/ relations.items[k].type \in PolynomialTypes /\ relations.items[k].base = "Z_N"
Given(arg) ==
    \/ arg.t # "list" /\ Truthy(arg)
    \/ arg.t = "list" /\ \E k \in DOMAIN arg.items : Truthy(arg.items[k])
Call(relations, args) ==
    [container |-> relations.container,
     n_rels |-> Len(relations.items),
     representations |-> {Representation(relations.items[k]) : k \in DOMAIN relations.items},
     carry_modulus |-> CarryModulus(relations),
     given |-> \E j \in 1..4 : Given(args[j]),
     list_lengths |-> {Len(args[j].items) : j \in {l \in 1..4 : args[l].t = "list"}}]

NotCalled == [container |-> "", n_rels |-> 0, representations |-> {},
              carry_modulus |-> FALSE, given |-> FALSE, list_lengths |-> {}]
NotParsed == [called |-> FALSE, call |-> NotCalled, result |-> ParseFailure("")]
NoBounds == [called |-> FALSE, bounds |-> BoundsArg("", <<>>), exc |-> ""]

N == MaxModulus
ModulusArgs ==
    {Arg(PyNone), Arg(PyInt(0)), Arg(PyInt(N)), Arg(PyStr)}
    \cup {PyList(ms) : ms \in SeqsUpTo({PyNone, PyInt(N)}, MaxRels)}
HintArgs ==
    {Arg(PyNone), Arg(PyInt(N))}
    \cup {PyList(ms) : ms \in SeqsUpTo({PyNone, PyInt(N)}, MaxRels) \ {<<>>}}

IdleParse == parsed = NotParsed /\ parsed_bounds = NoBounds

\* find_small_roots, first statement: parse_relations on the caller's arguments
Wrapper_parse_relations ==
    /\ ~parsed.called
    /\ \E relations \in RelationsArgs, ring_vars \in RingVars, modulus \in ModulusArgs,
          modulus_multiple \in HintArgs, modulus_lower_bound \in HintArgs,
          modulus_upper_bound \in {Arg(PyNone), Arg(PyInt(N))} :
          parsed' = [called |-> TRUE,
                     call |-> Call(relations, <<modulus, modulus_multiple,
                                                modulus_lower_bound, modulus_upper_bound>>),
                     result |-> parse_relations(relations, ring_vars, modulus,
                                                modulus_multiple, modulus_lower_bound,
                                                modulus_upper_bound)]
    /\ UNCHANGED <<parsed_bounds, boundVars, idealVars, solverVars, convVars, stageVars>>

\* find_small_roots, second statement: parse_bounds, once parse_relations
\* has returned
Wrapper_parse_bounds ==
    /\ parsed.called /\ parsed.result.exc = ""
    /\ ~parsed_bounds.called
    /\ \E bnds \in BoundsArgs :
          parsed_bounds' = [called |-> TRUE, bounds |-> bnds,
                            exc |-> parse_bounds(bnds, parsed.result.n_gens)]
    /\ UNCHANGED <<parsed, boundVars, idealVars, solverVars, convVars, stageVars>>

\* ------------------------------------------------------------------------
\* strategy/problem_converter: recenter.py, monom_ordering.py,
\* unraveled_linearization.py and chain.py.  Here a ring is the sequence of
\* the names of its generators, and a polynomial over the ring is
\* xy*g1*g2 + x*g1 + y*g2 + c, its coefficients held by position; a relation
\* of the unraveled problem also has the coefficient u of one generator u_i.
\* ------------------------------------------------------------------------
MaxShift == 2

BiPoly(a, b, c, d) == [xy |-> a, x |-> b, y |-> c, c |-> d]
Negate(f) == BiPoly(-f.xy, -f.x, -f.y, -f.c)
IndexOf(seq, e) == CHOOSE i \in DOMAIN seq : seq[i] = e
Gens(ring) == {ring[i] : i \in DOMAIN ring}

\* The value of generator i in a solution; a ring of one generator has no g2
ValueAt(soln, ring, i) == IF i \in DOMAIN ring THEN soln[ring[i]] ELSE 0
Evaluate(f, ring, soln) ==
    f.xy * ValueAt(soln, ring, 1) * ValueAt(soln, ring, 2)
        + f.x * ValueAt(soln, ring, 1) + f.y * ValueAt(soln, ring, 2) + f.c

ConvRelation(polynomial, u, modulus) == [polynomial |-> polynomial, u |-> u, modulus |-> modulus]

\* Relation.check for a relation of a converted problem
ConvRelationCheck(rel, ring, n_orig, soln) ==
    LET value == Evaluate(rel.polynomial, SubSeq(ring, 1, n_orig), soln)
                    + (IF rel.u = 0 THEN 0 ELSE soln[ring[n_orig + rel.u]])
    IN  IF rel.modulus = None THEN value = 0 ELSE value % rel.modulus[1] = 0

\* MultivariateCoppersmithProblem.check, the moduli being integers
ConvProblem(ring, n_orig, relations, bnds) ==
    [ring |-> ring, n_orig |-> n_orig, relations |-> relations, bounds |-> bnds]
ConvProblemCheck(problem, soln) ==
    /\ \A i \in DOMAIN problem.ring : problem.ring[i] \in DOMAIN soln
    /\ BoundSetCheck(problem.bounds, soln)
    /\ \A j \in DOMAIN problem.relations :
          ConvRelationCheck(problem.relations[j], problem.ring, problem.n_orig, soln)

\* BoundSet.get_poly_max_bound
MaxAbs(bnds, ring, i) ==
    IF i \in DOMAIN ring
    THEN Max(Abs(bnds[ring[i]].lower[1]), Abs(bnds[ring[i]].upper[1]))
    ELSE 1
get_poly_max_boundSigned(bnds, ring, poly) ==
    poly.xy * MaxAbs(bnds, ring, 1) * MaxAbs(bnds, ring, 2)
        + poly.x * MaxAbs(bnds, ring, 1) + poly.y * MaxAbs(bnds, ring, 2) + poly.c
get_poly_max_bound(bnds, ring, poly) ==
    Abs(poly.xy) * MaxAbs(bnds, ring, 1) * MaxAbs(bnds, ring, 2)
        + Abs(poly.x) * MaxAbs(bnds, ring, 1) + Abs(poly.y) * MaxAbs(bnds, ring, 2)
        + Abs(poly.c)

\* BoundSet.get_lower_bound and get_upper_bound of a polynomial that is not
\* a key of the BoundSet
get_lower_bound(bnds, ring, poly) == -get_poly_max_bound(bnds, ring, Negate(poly))
get_upper_bound(bnds, ring, poly) == get_poly_max_bound(bnds, ring, poly)

\* A dict built by a loop over the keys of another one
Rekey(soln, newkey(_), newvalue(_)) ==
    [k \in {newkey(j) : j \in DOMAIN soln} |->
        newvalue(CHOOSE j \in DOMAIN soln : newkey(j) = k)]

RecenterCentersCeil(bnds, ring) ==
    [i \in DOMAIN ring |-> (bnds[ring[i]].lower[1] + bnds[ring[i]].upper[1] + 1) \div 2]

\* RecenterConverter.run: the centers and the names of the new generators
RecenterCenters(bnds, ring) ==
    [i \in DOMAIN ring |-> (bnds[ring[i]].lower[1] + bnds[ring[i]].upper[1]) \div 2]
RecenterNames(ring, centers) ==
    [i \in DOMAIN ring |-> IF centers[i] = 0 THEN ring[i] ELSE ring[i] \o "_c"]

\* RecenterConverter._convert_bounds
RecenterConverter_convert_bounds(bnds, centers, orig_ring, new_ring) ==
    LET newkey(xi) == IF xi \in Gens(orig_ring) THEN new_ring[IndexOf(orig_ring, xi)] ELSE xi
        newvalue(xi) ==
            IF xi \in Gens(orig_ring)
            THEN Bound(Some(bnds[xi].lower[1] - centers[IndexOf(orig_ring, xi)]),
                       Some(bnds[xi].upper[1] - centers[IndexOf(orig_ring, xi)]))
            ELSE bnds[xi]
    IN  Rekey(bnds, newkey, newvalue)

\* RecenterRelation.convert_polynomial_to_new: g_i = g_i' + center_i
CenterAt(centers, i) == IF i \in DOMAIN centers THEN centers[i] ELSE 0
RecenterRelation_convert_polynomial_to_new(poly, centers) ==
    LET c1 == CenterAt(centers, 1)
        c2 == CenterAt(centers, 2)
    IN  BiPoly(poly.xy, poly.x + poly.xy * c2, poly.y + poly.xy * c1,
               poly.c + poly.x * c1 + poly.y * c2 + poly.xy * c1 * c2)

\* RecenterSolution.convert_solution_to_new and convert_solution_to_old
RecenterSolution_convert_solution_to_new(soln, old_ring, new_ring, centers) ==
    LET newkey(xi) == IF xi \in Gens(old_ring) THEN new_ring[IndexOf(old_ring, xi)] ELSE xi
        newvalue(xi) == IF xi \in Gens(old_ring)
                        THEN soln[xi] - centers[IndexOf(old_ring, xi)] ELSE soln[xi]
    IN  Rekey(soln, newkey, newvalue)
RecenterSolution_convert_solution_to_oldSubtracting(soln, old_ring, new_ring, centers) ==
    LET oldkey(xi) == IF xi \in Gens(new_ring) THEN old_ring[IndexOf(new_ring, xi)] ELSE xi
        oldvalue(xi) == IF xi \in Gens(new_ring)
                        THEN soln[xi] - centers[IndexOf(new_ring, xi)] ELSE soln[xi]
    IN  Rekey(soln, oldkey, oldvalue)
RecenterSolution_convert_solution_to_old(soln, old_ring, new_ring, centers) ==
    LET oldkey(xi) == IF xi \in Gens(new_ring) THEN old_ring[IndexOf(new_ring, xi)] ELSE xi
        oldvalue(xi) == IF xi \in Gens(new_ring)
                        THEN soln[xi] + centers[IndexOf(new_ring, xi)] ELSE soln[xi]
    IN  Rekey(soln, oldkey, oldvalue)

\* RenameSolutionConverter.convert_solution_to_new and convert_solution_to_old
RenameSolutionConverter_convert_solution_to_new(soln, orig, new) ==
    LET newkey(k) == IF k \in Gens(orig) THEN new[IndexOf(orig, k)] ELSE k
        newvalue(k) == soln[k]
    IN  Rekey(soln, newkey, newvalue)
RenameSolutionConverter_convert_solution_to_old(soln, orig, new) ==
    LET oldkey(k) == IF k \in Gens(new) THEN orig[IndexOf(new, k)] ELSE k
        oldvalue(k) == soln[k]
    IN  Rekey(soln, oldkey, oldvalue)

\* UnraveledLinearization._get_new_ring: the generators u_1, u_2, ... follow
\* the old ones
UnraveledLinearization_get_new_ring(orig_ring, unrav_lin_terms) ==
    orig_ring \o [i \in DOMAIN unrav_lin_terms |-> "u_" \o ToString(i)]

\* UnraveledLinearization._convert_bounds
UnraveledLinearization_convert_bounds(bnds, orig_ring, new_ring, unrav_lin_terms) ==
    LET n == Len(orig_ring)
        u_s == {new_ring[n + i] : i \in DOMAIN unrav_lin_terms}
    IN  [k \in DOMAIN bnds \cup u_s |->
            IF k \in u_s
            THEN LET ul_term == unrav_lin_terms[IndexOf(new_ring, k) - n]
                 IN  Bound(Some(get_lower_bound(bnds, orig_ring, ul_term)),
                           Some(get_upper_bound(bnds, orig_ring, ul_term)))
            ELSE bnds[k]]

\* UnraveledLinearization._convert_relations: the old relations, then
\* u_i - ul_term with an integer constraint
UnraveledLinearization_convert_relations(old_relations, unrav_lin_terms) ==
    old_relations \o [i \in DOMAIN unrav_lin_terms |->
                         ConvRelation(Negate(unrav_lin_terms[i]), i, None)]

\* UnravelSolution.convert_solution_to_new and convert_solution_to_old
UnravelSolution_convert_solution_to_new(soln, old_ring, new_ring, ul_terms) ==
    LET n == Len(old_ring)
        u_s == {new_ring[n + i] : i \in 1..(Len(new_ring) - n)}
        newkey(xi) == IF xi \in Gens(old_ring) THEN new_ring[IndexOf(old_ring, xi)] ELSE xi
        renamed == Rekey(soln, newkey, LAMBDA xi : soln[xi])
    IN  [k \in DOMAIN renamed \cup u_s |->
            IF k \in u_s THEN Evaluate(ul_terms[IndexOf(new_ring, k) - n], old_ring, soln)
            ELSE renamed[k]]
UnravelSolution_convert_solution_to_old(soln, old_ring, new_ring, ul_terms) ==
    LET kept == {new_xi \in DOMAIN soln :
                    new_xi \in Gens(new_ring) => IndexOf(new_ring, new_xi) <= Len(old_ring)}
        oldkey(new_xi) ==
            IF new_xi \in Gens(new_ring) THEN old_ring[IndexOf(new_ring, new_xi)] ELSE new_xi
    IN  Rekey(Restrict(soln, kept), oldkey, LAMBDA new_xi : soln[new_xi])

\* One converter of the chain
Converter(kind, old_ring, new_ring, centers, ul_terms) ==
    [kind |-> kind, old_ring |-> old_ring, new_ring |-> new_ring, centers |-> centers,
     ul_terms |-> ul_terms]

\* RecenterConverter.run, BoundedMonomialOrderConverter.run and
\* UnraveledLinearization.run: the new problem and the solution converter
RecenterConverter_run(problem) ==
    LET centers == RecenterCenters(problem.bounds, problem.ring)
        new_ring == RecenterNames(problem.ring, centers)
    IN  [problem |->
            ConvProblem(new_ring, problem.n_orig,
                [j \in DOMAIN problem.relations |->
                    ConvRelation(RecenterRelation_convert_polynomial_to_new(
                                     problem.relations[j].polynomial, centers),
                                 problem.relations[j].u, problem.relations[j].modulus)],
                RecenterConverter_convert_bounds(problem.bounds, centers, problem.ring,
                                                 new_ring)),
         soln_converter |-> Converter("RecenterSolution", problem.ring, new_ring, centers, <<>>)]
BoundedMonomialOrderConverter_run(problem) ==
    [problem |-> problem,
     soln_converter |->
        Converter("RenameSolutionConverter", problem.ring, problem.ring, <<>>, <<>>)]
UnraveledLinearization_run(problem, unrav_lin_terms) ==
    LET new_ring == UnraveledLinearization_get_new_ring(problem.ring, unrav_lin_terms)
    IN  [problem |->
            ConvProblem(new_ring, problem.n_orig,
                UnraveledLinearization_convert_relations(problem.relations, unrav_lin_terms),
                UnraveledLinearization_convert_bounds(problem.bounds, problem.ring, new_ring,
                                                      unrav_lin_terms)),
         soln_converter |->
            Converter("UnravelSolution", problem.ring, new_ring, <<>>, unrav_lin_terms)]

\* ChainConverter.run
ChainConverter_run(problem, do_recentering, unrav_lin_relations) ==
    LET recentered == IF do_recentering THEN <<RecenterConverter_run(problem)>> ELSE <<>>
        cur1 == IF do_recentering THEN recentered[1].problem ELSE problem
        ordered == BoundedMonomialOrderConverter_run(cur1)
        centers == IF do_recentering THEN recentered[1].soln_converter.centers ELSE <<>>
        new_ul_rels == [i \in DOMAIN unrav_lin_relations |->
                           RecenterRelation_convert_polynomial_to_new(unrav_lin_relations[i],
                                                                      centers)]
        unraveled == IF unrav_lin_relations # <<>>
                     THEN <<UnraveledLinearization_run(ordered.problem, new_ul_rels)>>
                     ELSE <<>>
        runs == recentered \o <<ordered>> \o unraveled
    IN  [problem |-> runs[Len(runs)].problem,
         soln_converters |-> [k \in DOMAIN runs |-> runs[k].soln_converter]]

\* SolutionConverter.convert_solution_to_new and convert_solution_to_old of
\* one converter of the chain
convert_solution_to_new(conv, soln) ==
    IF conv.kind = "RecenterSolution"
    THEN RecenterSolution_convert_solution_to_new(soln, conv.old_ring, conv.new_ring,
                                                  conv.centers)
    ELSE IF conv.kind = "RenameSolutionConverter"
    THEN RenameSolutionConverter_convert_solution_to_new(soln, conv.old_ring, conv.new_ring)
    ELSE UnravelSolution_convert_solution_to_new(soln, conv.old_ring, conv.new_ring,
                                                 conv.ul_terms)
convert_solution_to_old(conv, soln) ==
    IF conv.kind = "RecenterSolution"
    THEN RecenterSolution_convert_solution_to_old(soln, conv.old_ring, conv.new_ring,
                                                  conv.centers)
    ELSE IF conv.kind = "RenameSolutionConverter"
    THEN RenameSolutionConverter_convert_solution_to_old(soln, conv.old_ring, conv.new_ring)
    ELSE UnravelSolution_convert_solution_to_old(soln, conv.old_ring, conv.new_ring,
                                                 conv.ul_terms)

\* ChainSolnConverter.convert_solution_to_new: the solution after no, one,
\* two, ... converters of the chain
RECURSIVE ChainImages(_, _, _)
ChainImages(soln_converters, k, soln) ==
    IF k > Len(soln_converters) THEN <<soln>>
    ELSE <<soln>> \o ChainImages(soln_converters, k + 1,
                                 convert_solution_to_new(soln_converters[k], soln))

\* ChainSolnConverter.convert_solution_to_old: the solution with the
\* converters k+1, k+2, ... undone, at place k + 1
RECURSIVE ChainPreimages(_, _, _)
ChainPreimages(soln_converters, k, soln) ==
    IF k = 0 THEN <<soln>>
    ELSE ChainPreimages(soln_converters, k - 1,
                        convert_solution_to_old(soln_converters[k], soln)) \o <<soln>>

\* The problems, unraveled linearization terms and solutions that are converted
ConvRings == {<<"x">>, <<"x", "y">>}
ConvBound ==
    UNION {{Bound(Some(l), Some(u)) : u \in (l + 1)..(MaxShift + 1)} :
              l \in -MaxShift..(MaxShift + 1)}
SecondBound == {Bound(Some(-b), Some(b)) : b \in 1..MaxShift} \cup {Bound(Some(0), Some(MaxShift + 1))}
ConvBounds(ring) ==
    {[k \in Gens(ring) |-> IF k = "x" THEN bx ELSE by] : bx \in ConvBound, by \in SecondBound}
ConvRelations(ring) ==
    IF Len(ring) = 1
    THEN {<<ConvRelation(BiPoly(0, 1, 0, -1), 0, None)>>,
          <<ConvRelation(BiPoly(0, 2, 0, 1), 0, Some(3))>>}
    ELSE {<<ConvRelation(BiPoly(0, 1, 1, -1), 0, None)>>,
          <<ConvRelation(BiPoly(1, 0, 0, -2), 0, Some(3))>>}
UnravLinRelations(ring) ==
    IF Len(ring) = 1 THEN {<<>>, <<BiPoly(0, 2, 0, -1)>>}
    ELSE {<<>>, <<BiPoly(1, 0, 0, 1)>>, <<BiPoly(0, 1, -1, 0)>>,
          <<BiPoly(1, 0, 0, 1), BiPoly(0, 1, -1, 0)>>}
ConvProblems ==
    UNION {{ConvProblem(ring, Len(ring), rels, bnds) :
               rels \in ConvRelations(ring), bnds \in ConvBounds(ring)} : ring \in ConvRings}
ConvSolutions(ring) ==
    [Gens(ring) -> -MaxShift..(MaxShift + 1)]
        \cup {[k \in Gens(ring) \cup {"p"} |-> IF k = "p" THEN MaxShift + 1 ELSE soln[k]] :
                 soln \in [Gens(ring) -> -MaxShift..(MaxShift + 1)]}

NoConversion ==
    [called |-> FALSE, input |-> ConvProblem(<<>>, 0, <<>>, <<>>), do_recentering |-> FALSE,
     output |-> [problem |-> ConvProblem(<<>>, 0, <<>>, <<>>), soln_converters |-> <<>>]]
IdleConv == converted = NoConversion /\ images = <<>> /\ preimages = <<>>

\* ChainConverter.run on one problem
ChainConverter_run_problem ==
    /\ ~converted.called
    /\ \E problem \in ConvProblems, do_recentering \in BOOLEAN :
          \E unrav_lin_relations \in UnravLinRelations(problem.ring) :
             converted' = [called |-> TRUE, input |-> problem,
                           do_recentering |-> do_recentering,
                           output |-> ChainConverter_run(problem, do_recentering,
                                                         unrav_lin_relations)]
    /\ UNCHANGED <<images, preimages, boundVars, idealVars, solverVars, parseVars, stageVars>>

\* ChainSolnConverter.convert_solution_to_new on a solution of the problem
ChainSolnConverter_convert_solution_to_new ==
    /\ converted.called /\ images = <<>>
    /\ \E soln \in ConvSolutions(converted.input.ring) :
          images' = ChainImages(converted.output.soln_converters, 1, soln)
    /\ UNCHANGED <<converted, preimages, boundVars, idealVars, solverVars, parseVars, stageVars>>

\* ChainSolnConverter.convert_solution_to_old on the converted solution
ChainSolnConverter_convert_solution_to_old ==
    /\ images # <<>> /\ preimages = <<>>
    /\ preimages' = ChainPreimages(converted.output.soln_converters,
                                   Len(converted.output.soln_converters),
                                   images[Len(images)])
    /\ UNCHANGED <<converted, images, boundVars, idealVars, solverVars, parseVars, stageVars>>

\* ------------------------------------------------------------------------
\* strategy/ideal_selection/ideal_selection.py and utils.py
\* ------------------------------------------------------------------------
\* A base relation is kept as the content of its polynomial (the gcd of
\* its coefficients) and its modulus, an integer or None.  The generators
\* of an ideal play no part in its modulus and are left empty.
MaxIdeals == 4

GenRelation(content, modulus) == [content |-> content, modulus |-> modulus]

RECURSIVE SortedSeq(_)
SortedSeq(S) ==
    IF S = {} THEN <<>>
    ELSE LET m == CHOOSE x \in S : \A y \in S : x <= y
         IN  <<m>> \o SortedSeq(S \ {m})

\* RelationIdealGenerator._get_list_of_factors for integer moduli: the
\* pairwise coprime factors.  SharedFactorPairs are the index pairs i < j
\* with a common factor; inds_shared_factor is the pair the two loops leave
\* (the inner loop breaks at the first j, the outer loop runs on);
\* new_modset is the list passed to the recursive call, which drops 0, 1
\* and duplicates again.
SharedFactorPairs(modset) ==
    {p \in (DOMAIN modset) \X (DOMAIN modset) :
        p[1] < p[2] /\ gcd(modset[p[1]], modset[p[2]]) # 1}

inds_shared_factor(shared) ==
    CHOOSE p \in shared : \A q \in shared : q[1] < p[1] \/ (q[1] = p[1] /\ p[2] <= q[2])

new_modset(modset, i, j, g) ==
    {g, modset[i] \div g, modset[j] \div g} \cup {modset[k] : k \in (DOMAIN modset) \ {i, j}}

SplitSharedFactor(modset, inds) ==
    new_modset(modset, inds[1], inds[2], gcd(modset[inds[1]], modset[inds[2]]))

RECURSIVE CoprimeFactors(_)
CoprimeFactors(modset) ==
    IF SharedFactorPairs(modset) = {} THEN modset
    ELSE CoprimeFactors(SortedSeq(
             SplitSharedFactor(modset, inds_shared_factor(SharedFactorPairs(modset))) \ {0, 1}))

get_list_of_factors(moduli) ==
    CoprimeFactors(SortedSeq({mod \in moduli : mod \notin {0, 1}}))
        \o (IF 0 \in moduli THEN <<0>> ELSE <<>>)

\* _get_base_ideals: the shared factor of the coefficients and the modulus
\* of a relation is cancelled
CancelSharedFactor(rel) ==
    IF rel.modulus = None THEN rel
    ELSE LET g == gcd(rel.content, rel.modulus[1])
         IN  GenRelation(rel.content \div g, Some(rel.modulus[1] \div g))

\* _get_base_ideals: the moduli of the relations that have one
BaseModuli(rels) ==
    SortedSeq({CancelSharedFactor(rel).modulus[1] :
                  rel \in {r \in rels : r.modulus # None}})

\* _get_base_ideals: the number of times the factor q_j divides mod
RECURSIVE Multiplicity(_, _)
Multiplicity(mod, q_j) ==
    IF mod % q_j = 0 THEN 1 + Multiplicity(mod \div q_j, q_j) ELSE 0

Exponent(mod, factors) == [j \in DOMAIN factors |-> Multiplicity(mod, factors[j])]

UnitExponent(i, factors) == [j \in DOMAIN factors |-> IF j = i THEN 1 ELSE 0]

RECURSIVE Power(_, _)
Power(b, e) == IF e = 0 THEN 1 ELSE b * Power(b, e - 1)

RECURSIVE PowerProduct(_, _)
PowerProduct(weights, exps) ==
    IF weights = <<>> THEN 1
    ELSE Power(Head(weights), Head(exps)) * PowerProduct(Tail(weights), Tail(exps))

\* _get_base_ideals: "assert mod == 1" once every factor is divided out
ExponentsCoverModuli(moduli, factors) ==
    \A k \in DOMAIN moduli : PowerProduct(factors, Exponent(moduli[k], factors)) = moduli[k]

\* _get_base_ideals: J_ps, as the list of its (exponent, ideal) items: one
\* ideal for each modulus, and one for each factor that is no modulus
OwnFactors(moduli, factors) ==
    SelectSeq([i \in DOMAIN factors |-> i],
              LAMBDA i : \A k \in DOMAIN moduli :
                             Exponent(moduli[k], factors) # UnitExponent(i, factors))

BaseIdeals(moduli, factors, own, ring) ==
    [k \in DOMAIN moduli |->
        [exp |-> Exponent(moduli[k], factors),
         ideal |-> RelationIdeal({}, ring, Some(moduli[k]))]]
    \o [k \in DOMAIN own |->
        [exp |-> UnitExponent(own[k], factors),
         ideal |-> RelationIdeal({}, ring, Some(factors[own[k]]))]]

Factors(moduli) == get_list_of_factors({moduli[k] : k \in DOMAIN moduli})

J_ps(rels, ring) ==
    BaseIdeals(BaseModuli(rels), Factors(BaseModuli(rels)),
               OwnFactors(BaseModuli(rels), Factors(BaseModuli(rels))), ring)

J_inf(ring) == RelationIdeal({}, ring, None)

\* itertools.product(*[range(d + 1) for d in exp]), in the order it iterates
RECURSIVE PrependRange(_, _, _)
PrependRange(d, hi, rest) ==
    IF d > hi THEN <<>>
    ELSE [k \in DOMAIN rest |-> <<d>> \o rest[k]] \o PrependRange(d + 1, hi, rest)

RECURSIVE diffgen(_)
diffgen(exp) ==
    IF exp = <<>> THEN << <<>> >>
    ELSE PrependRange(0, Head(exp), diffgen(Tail(exp)))

RECURSIVE SeqSum(_)
SeqSum(s) == IF s = <<>> THEN 0 ELSE Head(s) + SeqSum(Tail(s))

\* RelationIdealGenerator._get_ideal; None for a multiplicity with a
\* negative entry.  ApplyDiffs is the loop over diffgen for one base ideal
\* (with its break at a dominated diff), ApplyIdeals the loop over J_ps.
\* _get_ideal is wrapped in functools.lru_cache: the ideal of a
\* multiplicity that was computed before, which every yielded one was, is
\* taken from the cache.
Cached(cache, multiplicity) == {k \in DOMAIN cache : cache[k].exp = multiplicity}

RECURSIVE get_ideal(_, _, _, _)
RECURSIVE ApplyDiffs(_, _, _, _, _, _, _, _, _)
RECURSIVE ApplyIdeals(_, _, _, _, _, _)

ApplyDiffs(diffs, k, applied_diffs, J, multiplicity, item, base, ring, cache) ==
    IF k > Len(diffs) THEN J
    ELSE LET diff == diffs[k]
             is_dominated == \E applied_diff \in applied_diffs :
                                 \A i \in DOMAIN diff : applied_diff[i] <= diff[i]
             exp_smaller == [i \in DOMAIN diff |-> multiplicity[i] - item.exp[i] + diff[i]]
             ideal2 == get_ideal(exp_smaller, base, ring, cache)
         IN  IF diff = item.exp
                 THEN ApplyDiffs(diffs, k + 1, applied_diffs, J, multiplicity, item, base, ring, cache)
             ELSE IF is_dominated THEN J
             ELSE IF ideal2 = None
                 THEN ApplyDiffs(diffs, k + 1, applied_diffs, J, multiplicity, item, base, ring, cache)
             ELSE ApplyDiffs(diffs, k + 1, applied_diffs \cup {diff},
                             RelationIdealAdd(J, RelationIdealMul(item.ideal, ideal2[1]).value).value,
                             multiplicity, item, base, ring, cache)

ApplyIdeals(k, J, multiplicity, base, ring, cache) ==
    IF k > Len(base) THEN J
    ELSE ApplyIdeals(k + 1,
                     ApplyDiffs(diffgen(base[k].exp), 1, {}, J, multiplicity, base[k],
                                base, ring, cache),
                     multiplicity, base, ring, cache)

get_ideal(multiplicity, base, ring, cache) ==
    IF \E i \in DOMAIN multiplicity : multiplicity[i] < 0 THEN None
    ELSE IF Cached(cache, multiplicity) # {}
        THEN Some(RelationIdeal({}, ring,
                      cache[CHOOSE k \in Cached(cache, multiplicity) : TRUE].modulus))
    ELSE IF SeqSum(multiplicity) = 0 THEN Some(RelationIdeal({}, ring, Some(1)))
    ELSE Some(ApplyIdeals(1, J_inf(ring), multiplicity, base, ring, cache))

\* weighted_combinations: the score of new_exps.  The weights of run are
\* log2 of the factors' lower bounds, so the score sum(w_i * e_i) is kept
\* as 2^score, the product of the lower bounds' powers, which orders the
\* heap in the same way.
ScoreUnweighted(weights, new_exps) == SeqSum(new_exps)

Score(weights, new_exps) == PowerProduct(weights, new_exps)

RECURSIVE TupleLess(_, _)
TupleLess(a, b) ==
    IF a = <<>> \/ b = <<>> THEN a = <<>> /\ b # <<>>
    ELSE Head(a) < Head(b) \/ (Head(a) = Head(b) /\ TupleLess(Tail(a), Tail(b)))

\* heappop: the least (score, exps) of the heap
heappop(h, weights) ==
    CHOOSE exps \in h : \A other \in h \ {exps} :
        \/ Score(weights, exps) < Score(weights, other)
        \/ Score(weights, exps) = Score(weights, other) /\ TupleLess(exps, other)

\* weighted_combinations: one turn of its loop leaves the heap without the
\* popped exps and with its successors
Successors(exps) ==
    {[j \in DOMAIN exps |-> IF j = i THEN exps[j] + 1 ELSE exps[j]] : i \in DOMAIN exps}

\* BoundSet.get_lower_bound of an integer is the integer
Weights(factors) == factors

GenModuli == {None} \cup {Some(m) : m \in 2..MaxModulus}
GenRelations == {GenRelation(c, m) : c \in 1..2, m \in GenModuli}
GenInputs == {rels \in SUBSET GenRelations : Cardinality(rels) \in 1..2}

GenRing == "ZZ[x]"
NoGenerator == [state |-> "none", factors |-> <<>>]
IdleGen ==
    /\ base_relations = {} /\ heap = {} /\ yielded = <<>> /\ generator = NoGenerator

\* RelationIdealGenerator.run is a generator function: the call binds the
\* arguments and runs nothing
RelationIdealGenerator_run ==
    /\ generator.state = "none"
    /\ \E rels \in GenInputs : base_relations' = rels
    /\ generator' = [state |-> "created", factors |-> <<>>]
    /\ UNCHANGED <<heap, yielded>>
    /\ UNCHANGED <<boundVars, idealVars, solverVars, parseVars, convVars, shiftVars, reductionVars, hhgVars, primalVars, enumVars, groebnerVars, moduliVars, flatterVars, graphVars, configVars, builderVars, comboVars>>

\* The ideal that run yields for exp, with the lower bound of its modulus
Yield(exp) ==
    LET J == get_ideal(exp, J_ps(base_relations, GenRing), GenRing, yielded)[1]
    IN  [exp |-> exp, modulus |-> J.modulus]

\* weighted_combinations: one turn of its loop pops exps and leaves the
\* heap without it and with its successors
Turn(h, weights) ==
    [exps |-> heappop(h, weights),
     heap |-> (h \ {heappop(h, weights)}) \cup Successors(heappop(h, weights))]

\* The multiplicity 0 is skipped: a second turn follows it, unless the heap
\* is then empty
SkipZero(first, weights) ==
    IF SeqSum(first.exps) = 0 /\ first.heap # {} THEN Turn(first.heap, weights) ELSE first

\* next() on the generator: run up to its next yield.  The first call
\* computes the base ideals; with no modular ideal it yields J_inf and the
\* next call ends the generator.  Popping the empty heap (no factor at
\* all) raises IndexError.
RelationIdealGenerator_next ==
    /\ generator.state \in {"created", "suspended"}
    /\ Len(yielded) < MaxIdeals
    /\ \E factors \in {IF generator.state = "created"
                          THEN Factors(BaseModuli(base_relations))
                          ELSE generator.factors} :
           IF /\ generator.state = "created"
              /\ ~ExponentsCoverModuli(BaseModuli(base_relations), factors)
               THEN /\ generator' = [state |-> "AssertionError", factors |-> factors]
                    /\ UNCHANGED <<heap, yielded>>
           ELSE IF Len(J_ps(base_relations, GenRing)) = 0
               THEN IF generator.state = "created"
                        THEN /\ yielded' = <<[exp |-> <<>>, modulus |-> J_inf(GenRing).modulus]>>
                             /\ generator' = [state |-> "suspended", factors |-> factors]
                             /\ UNCHANGED heap
                        ELSE /\ generator' = [state |-> "StopIteration", factors |-> factors]
                             /\ UNCHANGED <<heap, yielded>>
           ELSE \E turn \in {SkipZero(Turn(IF generator.state = "created"
                                               THEN {[j \in DOMAIN factors |-> 0]} ELSE heap,
                                           Weights(factors)),
                                      Weights(factors))} :
                    IF SeqSum(turn.exps) = 0
                        THEN /\ generator' = [state |-> "IndexError", factors |-> factors]
                             /\ heap' = turn.heap
                             /\ UNCHANGED yielded
                        ELSE /\ yielded' = Append(yielded, Yield(turn.exps))
                             /\ heap' = turn.heap
                             /\ generator' = [state |-> "suspended", factors |-> factors]
    /\ UNCHANGED base_relations
    /\ UNCHANGED <<boundVars, idealVars, solverVars, parseVars, convVars, shiftVars, reductionVars, hhgVars, primalVars, enumVars, groebnerVars, moduliVars, flatterVars, graphVars, configVars, builderVars, comboVars>>

\* ------------------------------------------------------------------------
\* strategy/shift_polynomial_selection/optimal.py
\* ------------------------------------------------------------------------
\* The monomials of one ideal, in the order _get_monomial_set yields them;
\* each is TRUE when _get_shift_poly_with_lm returns a relation for it
\* (some Groebner basis element's leading monomial divides it) and FALSE
\* when it returns None.  A shift polynomial is named by the index of its
\* monomial.
MaxMonomials == 6

is_power_of_two(n) == \E k \in 0..n : Power(2, k) = n

\* OptimalShiftPolys._is_intermediate_output_size
is_intermediate_output_sizeFromOne(sz) ==
    IF sz < 1 THEN FALSE
    ELSE IF is_power_of_two(sz) THEN TRUE
    ELSE IF sz % 3 = 0 /\ is_power_of_two(sz \div 3) THEN TRUE
    ELSE FALSE

is_intermediate_output_size(sz) ==
    IF sz < 2 THEN FALSE
    ELSE IF is_power_of_two(sz) THEN TRUE
    ELSE IF sz % 3 = 0 /\ is_power_of_two(sz \div 3) THEN TRUE
    ELSE FALSE

\* shift_polys once the first k monomials have been taken
ShiftPolysAfter(monoms, k) ==
    SelectSeq([i \in 1..k |-> i], LAMBDA i : monoms[i])

MonomialLists == UNION {[1..n -> BOOLEAN] : n \in 0..MaxMonomials}

NoShiftGenerator == [state |-> "none", use_intermediate_sizes |-> FALSE, pos |-> 0]
IdleShift ==
    /\ monomials = <<>> /\ shift_polys = <<>> /\ batches = <<>>
    /\ shift_gen = NoShiftGenerator

\* OptimalShiftPolys._get_shift_polys_for_ideal is a generator function:
\* the call binds the ideal and runs nothing
OptimalShiftPolys_get_shift_polys_for_ideal ==
    /\ shift_gen.state = "none"
    /\ \E monoms \in MonomialLists : monomials' = monoms
    /\ \E use \in BOOLEAN :
           shift_gen' = [state |-> "created", use_intermediate_sizes |-> use, pos |-> 0]
    /\ UNCHANGED <<shift_polys, batches>>
    /\ UNCHANGED <<boundVars, idealVars, solverVars, parseVars, convVars, genVars, reductionVars, hhgVars, primalVars, enumVars, groebnerVars, moduliVars, flatterVars, graphVars, configVars, builderVars, comboVars>>

\* next() on the generator: take monomials up to the next yield.  Inside
\* the loop the list is yielded after a monomial when its length is an
\* intermediate size; after the loop it is yielded when it is not empty
\* and was not yielded on the last turn of the loop; a call after that
\* ends the generator.
OptimalShiftPolys_next ==
    /\ shift_gen.state \in {"created", "suspended", "final"}
    /\ LET use == shift_gen.use_intermediate_sizes
           stops == {k \in (shift_gen.pos + 1)..Len(monomials) :
                        use /\ is_intermediate_output_size(Len(ShiftPolysAfter(monomials, k)))}
           all == ShiftPolysAfter(monomials, Len(monomials))
       IN  IF shift_gen.state = "final"
               THEN /\ shift_gen' = [shift_gen EXCEPT !.state = "StopIteration"]
                    /\ UNCHANGED <<shift_polys, batches>>
           ELSE IF stops # {}
               THEN LET k == CHOOSE s \in stops : \A t \in stops : s <= t
                    IN  /\ shift_polys' = ShiftPolysAfter(monomials, k)
                        /\ batches' = Append(batches, ShiftPolysAfter(monomials, k))
                        /\ shift_gen' = [shift_gen EXCEPT !.state = "suspended", !.pos = k]
           ELSE IF (~use \/ ~is_intermediate_output_size(Len(all))) /\ Len(all) # 0
               THEN /\ shift_polys' = all
                    /\ batches' = Append(batches, all)
                    /\ shift_gen' = [shift_gen EXCEPT !.state = "final", !.pos = Len(monomials)]
           ELSE /\ shift_polys' = all
                /\ shift_gen' = [shift_gen EXCEPT !.state = "StopIteration", !.pos = Len(monomials)]
                /\ UNCHANGED batches
    /\ UNCHANGED monomials
    /\ UNCHANGED <<boundVars, idealVars, solverVars, parseVars, convVars, genVars, reductionVars, hhgVars, primalVars, enumVars, groebnerVars, moduliVars, flatterVars, graphVars, configVars, builderVars, comboVars>>

\* ------------------------------------------------------------------------
\* data/lattice.py and strategy/lattice_reduction/lattice_reduction.py
\* ------------------------------------------------------------------------
\* A basis is the sequence of its rows.  A scale factor is the rational
\* num/den, and Infinity has den = 0.  InfFactor stands for 1 << 1000, the
\* first weight that replaces Infinity.
MaxEntry == 1
MaxReductions == 2
InfFactor == 2

Infinity == [num |-> 1, den |-> 0]
Finite(num, den) == [num |-> num, den |-> den]

Lattice(basis, monoms, is_primal, modulus, scale_factors) ==
    [basis |-> basis, monomials |-> monoms, is_primal |-> is_primal,
     modulus |-> modulus, scale_factors |-> scale_factors]

\* Lattice.rank
rank(L) == Len(L.basis)

RECURSIVE SeqLcm(_)
SeqLcm(s) == IF s = <<>> THEN 1 ELSE lcm(Head(s), SeqLcm(Tail(s)))

\* LatticeReduction.scale_basis
scale_basis(basis, factors) ==
    [i \in DOMAIN basis |-> [j \in DOMAIN basis[i] |-> basis[i][j] * factors[j]]]

\* LatticeReduction.unscale_basis
unscale_basis(basis, factors) ==
    [i \in DOMAIN basis |-> [j \in DOMAIN basis[i] |-> basis[i][j] \div factors[j]]]

\* LatticeReduction.run: the common denominator, the mask of the infinite
\* columns and the integer scale factors
Denom(scale_factors) ==
    SeqLcm(SelectSeq([j \in DOMAIN scale_factors |-> scale_factors[j].den],
                     LAMBDA d : d # 0))

inf_mask(scale_factors) == [j \in DOMAIN scale_factors |-> scale_factors[j] = Infinity]

IntScaleFactors(scale_factors, inf_factor) ==
    [j \in DOMAIN scale_factors |->
        IF scale_factors[j] # Infinity
            THEN (Denom(scale_factors) * scale_factors[j].num) \div scale_factors[j].den
            ELSE inf_factor]

\* The number of rows of basis[:stop, j], by Python's slicing
SliceRows(stop, nrows) ==
    IF stop >= 0 THEN Min(stop, nrows) ELSE Max(nrows + stop, 0)

\* LatticeReduction.run: whether some infinite-scaled column of the reduced
\* basis is not zero in the rows [:expected_zero_rows]
insufficient_reductionOneRowLess(red_scaled_basis, L) ==
    LET mask == inf_mask(L.scale_factors)
        expected_zero_rows == rank(L) - Cardinality({j \in DOMAIN mask : mask[j]})
    IN  \E j \in DOMAIN mask :
            /\ mask[j]
            /\ \E i \in 1..(SliceRows(expected_zero_rows, Len(red_scaled_basis)) - 1) :
                   red_scaled_basis[i][j] # 0

insufficient_reduction(red_scaled_basis, L) ==
    LET mask == inf_mask(L.scale_factors)
        expected_zero_rows == rank(L) - Cardinality({j \in DOMAIN mask : mask[j]})
    IN  \E j \in DOMAIN mask :
            /\ mask[j]
            /\ \E i \in 1..SliceRows(expected_zero_rows, Len(red_scaled_basis)) :
                   red_scaled_basis[i][j] # 0

\* reduce_integer_basis is abstract: a reduction returns some basis of the
\* same lattice, U * basis for a unimodular U; here U keeps the rows, swaps
\* them, negates the first or adds or subtracts one row to the other
Unimodular(n) ==
    IF n = 1 THEN {<< <<1>> >>, << <<-1>> >>}
    ELSE {<< <<1, 0>>, <<0, 1>> >>, << <<0, 1>>, <<1, 0>> >>, << <<-1, 0>>, <<0, 1>> >>,
          << <<1, 1>>, <<0, 1>> >>, << <<1, -1>>, <<0, 1>> >>,
          << <<1, 0>>, <<1, 1>> >>, << <<1, 0>>, <<-1, 1>> >>}

MatMul(U, basis) ==
    [i \in DOMAIN U |->
        [j \in DOMAIN basis[1] |->
            SeqSum([k \in DOMAIN basis |-> U[i][k] * basis[k][j]])]]

reduce_integer_basis(basis) == {MatMul(U, basis) : U \in Unimodular(Len(basis))}

LatticeRows == [1..2 -> 0..MaxEntry]
LatticeBases == {<<r>> : r \in LatticeRows} \cup {<<r1, r2>> : r1 \in LatticeRows, r2 \in LatticeRows}
ScaleFactors == [1..2 -> {Finite(1, 1), Finite(1, 2), Infinity}]
MonomialColumns == {<<"1", "x">>, <<"x", "x^2">>}
InputLattices ==
    {Lattice(basis, monoms, is_primal, modulus, scale_factors) :
        basis \in LatticeBases, monoms \in {<<"1", "x">>}, is_primal \in {TRUE},
        modulus \in {None}, scale_factors \in ScaleFactors}
        \cup {Lattice(<< <<1, 1>>, <<0, 1>> >>, monoms, FALSE, Some(MaxModulus), <<Infinity, Finite(1, 1)>>) :
                 monoms \in MonomialColumns}

NoLattice == Lattice(<<>>, <<>>, FALSE, None, <<>>)
NoReduction ==
    [state |-> "none", turns |-> 0, inf_factor |-> 0, int_scale_factors |-> <<>>,
     scaled_basis |-> <<>>, red_scaled_basis |-> <<>>]
IdleReduction == lattice = NoLattice /\ reduction = NoReduction /\ red_lattice = NoLattice

\* LatticeReduction.run up to the while loop
LatticeReduction_run ==
    /\ reduction.state = "none"
    /\ \E L \in InputLattices :
           /\ lattice' = L
           /\ reduction' =
                  [state |-> "reduce", turns |-> 0, inf_factor |-> InfFactor,
                   int_scale_factors |-> IntScaleFactors(L.scale_factors, InfFactor),
                   scaled_basis |-> scale_basis(L.basis, IntScaleFactors(L.scale_factors, InfFactor)),
                   red_scaled_basis |-> <<>>]
    /\ UNCHANGED red_lattice
    /\ UNCHANGED <<boundVars, idealVars, solverVars, parseVars, convVars, genVars, shiftVars, hhgVars, primalVars, enumVars, groebnerVars, moduliVars, flatterVars, graphVars, configVars, builderVars, comboVars>>

\* One turn of the while loop: reduce; when the reduction is insufficient,
\* square inf_factor and scale the infinite columns of the reduced basis
\* and their scale factors by it; otherwise unscale and return the lattice
LatticeReduction_reduce ==
    /\ reduction.state = "reduce"
    /\ reduction.turns < MaxReductions
    /\ \E red_scaled_basis \in reduce_integer_basis(reduction.scaled_basis) :
           LET mask == inf_mask(lattice.scale_factors)
               inf_factor == reduction.inf_factor * reduction.inf_factor
               enlarge == [j \in DOMAIN mask |-> IF mask[j] THEN inf_factor ELSE 1]
           IN  IF insufficient_reduction(red_scaled_basis, lattice)
                   THEN /\ reduction' =
                               [state |-> "reduce", turns |-> reduction.turns + 1,
                                inf_factor |-> inf_factor,
                                int_scale_factors |->
                                    [j \in DOMAIN mask |-> reduction.int_scale_factors[j] * enlarge[j]],
                                scaled_basis |-> scale_basis(red_scaled_basis, enlarge),
                                red_scaled_basis |-> scale_basis(red_scaled_basis, enlarge)]
                        /\ UNCHANGED red_lattice
                   ELSE /\ reduction' =
                               [reduction EXCEPT !.state = "returned", !.turns = @ + 1,
                                                 !.red_scaled_basis = red_scaled_basis]
                        /\ red_lattice' =
                               Lattice(unscale_basis(red_scaled_basis, reduction.int_scale_factors),
                                       lattice.monomials, lattice.is_primal, lattice.modulus,
                                       lattice.scale_factors)
    /\ UNCHANGED lattice
    /\ UNCHANGED <<boundVars, idealVars, solverVars, parseVars, convVars, genVars, shiftVars, hhgVars, primalVars, enumVars, groebnerVars, moduliVars, flatterVars, graphVars, configVars, builderVars, comboVars>>

\* ------------------------------------------------------------------------
\* strategy/root_recovery/hastad_howgrave_graham.py (on a Lattice)
\* ------------------------------------------------------------------------
\* Lattice.get_vector
get_vector(L, index) == L.basis[index]

\* Lattice.get_scaled_vector raises ValueError for a row that is not zero
\* in an infinite-scaled column; the scale factors of a dual lattice are
\* integers (den = 1) or Infinity
InfinitelyLarge(L, index) ==
    \E j \in DOMAIN L.scale_factors :
        L.scale_factors[j] = Infinity /\ get_vector(L, index)[j] # 0

get_scaled_vector(L, index) ==
    [j \in DOMAIN L.scale_factors |->
        IF L.scale_factors[j] = Infinity THEN 0
        ELSE L.scale_factors[j].num * get_vector(L, index)[j]]

\* vec.norm(1), and the square of vec.norm(2)
Norm1(vec) == SeqSum([j \in DOMAIN vec |-> Abs(vec[j])])
Norm2Squared(vec) == SeqSum([j \in DOMAIN vec |-> vec[j] * vec[j]])

\* Lattice.dimension: the number of columns
dimension(L) == Len(L.monomials)

\* recover_int_relations: whether row index satisfies the norm bound;
\* vec.norm(2) / sqrt(dim) < max_l1_norm compares non-negative numbers, so
\* it is the comparison of their squares
IsShortVector(L, index, use_l1_of_vectors, max_l1_norm) ==
    IF use_l1_of_vectors
        THEN Norm1(get_scaled_vector(L, index)) < max_l1_norm
        ELSE Norm2Squared(get_scaled_vector(L, index)) < max_l1_norm * max_l1_norm * dimension(L)

\* Lattice.get_relation: the polynomial sum(v_i * m_i), as the coefficient
\* of each monomial, with the modulus of the lattice
get_relation(L, index) ==
    [polynomial |-> [m \in {L.monomials[j] : j \in DOMAIN L.monomials} |->
                        SeqSum([j \in DOMAIN L.monomials |->
                                   IF L.monomials[j] = m THEN get_vector(L, index)[j] ELSE 0])],
     modulus |-> L.modulus]

HHGRaised(e) == [exc |-> e, inds |-> <<>>, rels |-> <<>>]

\* HastadHowgraveGraham.recover_int_relations
recover_int_relations(L, use_l1_of_vectors) ==
    IF L.modulus = None THEN HHGRaised("ValueError")
    ELSE LET max_l1_norm == L.modulus[1]
             short_vector_inds ==
                 SelectSeq([i \in 1..rank(L) |-> i],
                           LAMBDA i : IsShortVector(L, i, use_l1_of_vectors, max_l1_norm))
         IN  IF \E i \in 1..rank(L) : InfinitelyLarge(L, i) THEN HHGRaised("ValueError")
             ELSE IF Len(short_vector_inds) = 0 THEN HHGRaised("SolveFailureError")
             ELSE IF L.is_primal # FALSE THEN HHGRaised("TypeError")
             ELSE [exc |-> "", inds |-> short_vector_inds,
                   rels |-> [k \in DOMAIN short_vector_inds |->
                                [polynomial |-> get_relation(L, short_vector_inds[k]).polynomial,
                                 modulus |-> None]]]

DualRows == [1..2 -> -MaxEntry..MaxEntry]
DualBases == {<<r>> : r \in DualRows} \cup {<<r1, r2>> : r1 \in DualRows, r2 \in DualRows}
DualScaleFactors == [1..2 -> {Finite(1, 1), Finite(2, 1), Infinity}]
DualLattices ==
    {Lattice(basis, <<"1", "x">>, is_primal, modulus, scale_factors) :
        basis \in DualBases, is_primal \in BOOLEAN,
        modulus \in {None, Some(2), Some(3)}, scale_factors \in DualScaleFactors}

NoRecovery == [state |-> "none", lattice |-> NoLattice, use_l1_of_vectors |-> TRUE]
NoRelations == HHGRaised("")
IdleHHG == hhg = NoRecovery /\ int_relations = NoRelations

\* HastadHowgraveGraham(use_l1_of_vectors).recover_int_relations(lattice, bounds);
\* the lower bound of an integer modulus is the modulus
HastadHowgraveGraham_recover_int_relations ==
    /\ hhg.state = "none"
    /\ \E L \in DualLattices, use \in BOOLEAN :
           /\ hhg' = [state |-> "called", lattice |-> L, use_l1_of_vectors |-> use]
           /\ int_relations' = recover_int_relations(L, use)
    /\ UNCHANGED <<boundVars, idealVars, solverVars, parseVars, convVars, genVars, shiftVars, reductionVars, primalVars, enumVars, groebnerVars, moduliVars, flatterVars, graphVars, configVars, builderVars, comboVars>>

\* ------------------------------------------------------------------------
\* strategy/root_recovery/primal.py (on a Lattice)
\* ------------------------------------------------------------------------
\* A monomial of the primal lattice is its pair of exponents in x and y, and
\* a variable is its index, 1 for x and 2 for y.  A scaled entry is the
\* rational v * num / den.
One == <<0, 0>>
VarMonomial(x_i) == [k \in 1..2 |-> IF k = x_i THEN 1 ELSE 0]

\* PrimalRecovery.recover_short_vectors: the rows whose scaled vector has
\* infinity norm <= 1; a row that get_scaled_vector refuses is skipped
recover_short_vectors(L) ==
    SelectSeq([i \in 1..rank(L) |-> i],
              LAMBDA i : /\ ~InfinitelyLarge(L, i)
                         /\ \A j \in DOMAIN L.scale_factors :
                                L.scale_factors[j] # Infinity =>
                                    Abs(get_vector(L, i)[j] * L.scale_factors[j].num)
                                        <= L.scale_factors[j].den)

\* m_i.subs(root); None when a variable of m_i has no value in root
Subs(m_i, root) ==
    IF \E k \in 1..2 : m_i[k] > 0 /\ k \notin DOMAIN root THEN None
    ELSE Some(PowerProduct([k \in 1..2 |-> IF k \in DOMAIN root THEN root[k] ELSE 1], m_i))

PrimalRaised(e) == [exc |-> e, returned |-> FALSE, solutions |-> <<>>]
PrimalReturned(solutions) == [exc |-> "", returned |-> TRUE, solutions |-> solutions]

\* PrimalRecovery.get_solution_from_single_vector
get_solution_from_single_vector(vec, monoms, variables) ==
    IF \A j \in DOMAIN monoms : monoms[j] # One THEN PrimalRaised("SolveFailureError")
    ELSE LET one_ind == IndexOf(monoms, One)
             flipped == IF vec[one_ind] < 0 THEN [j \in DOMAIN vec |-> -vec[j]] ELSE vec
             found == {x_i \in variables : \E j \in DOMAIN monoms : monoms[j] = VarMonomial(x_i)}
             root == [x_i \in found |-> flipped[IndexOf(monoms, VarMonomial(x_i))]]
         IN  IF found = {} THEN PrimalReturned(<<>>)
             ELSE IF \E j \in DOMAIN monoms : Some(flipped[j]) # Subs(monoms[j], root)
                 THEN PrimalReturned(<<>>)
             ELSE PrimalReturned(<<root>>)

\* PrimalRecovery.run
PrimalRecovery_run_lattice(L, xs) ==
    LET short_vec_inds == recover_short_vectors(L)
        monoms == L.monomials
    IN  IF Len(short_vec_inds) = 0 THEN PrimalRaised("SolveFailureError")
        ELSE IF /\ Len(short_vec_inds) = 1
                /\ \E j \in DOMAIN monoms : monoms[j] = One
                /\ \A x_i \in xs : \E j \in DOMAIN monoms : monoms[j] = VarMonomial(x_i)
            THEN get_solution_from_single_vector(get_vector(L, short_vec_inds[1]), monoms, xs)
        ELSE PrimalRaised("SolveFailureError")

PrimalRows == [1..3 -> -MaxEntry..MaxEntry]
PrimalBases == {<<r>> : r \in PrimalRows} \cup {<<r1, r2>> : r1 \in PrimalRows, r2 \in PrimalRows}
PrimalMonomials == {<<One, <<1, 0>>, <<2, 0>> >>, << <<1, 0>>, <<0, 1>>, <<1, 1>> >>,
                    <<One, <<1, 0>>, <<0, 1>> >>, <<One, <<0, 1>>, <<1, 1>> >>}
PrimalScaleFactors == [1..3 -> {Finite(1, 1), Infinity}]
PrimalLattice(basis, monoms, scale_factors) ==
    Lattice(basis, monoms, TRUE, None, scale_factors)

NoPrimal == [state |-> "none", lattice |-> NoLattice, variables |-> {}]
IdlePrimal == recovery = NoPrimal /\ primal_result = PrimalRaised("")

\* PrimalRecovery.run(reduced_lattice, input_relations, bounds), with xs the
\* variables of input_relations
PrimalRecovery_run ==
    /\ recovery.state = "none"
    /\ \E basis \in PrimalBases, monoms \in PrimalMonomials,
          scale_factors \in PrimalScaleFactors, xs \in {{1}, {1, 2}} :
           /\ recovery' = [state |-> "called", variables |-> xs,
                           lattice |-> PrimalLattice(basis, monoms, scale_factors)]
           /\ primal_result' =
                  PrimalRecovery_run_lattice(PrimalLattice(basis, monoms, scale_factors), xs)
    /\ UNCHANGED <<boundVars, idealVars, solverVars, parseVars, convVars, genVars, shiftVars, reductionVars, hhgVars, enumVars, groebnerVars, moduliVars, flatterVars, graphVars, configVars, builderVars, comboVars>>

\* ------------------------------------------------------------------------
\* solver/multivariate_solver/partial/linear.py: the lattice enumeration of
\* _recover_short_vectors, candidate by candidate
\* ------------------------------------------------------------------------
\* The reduced lattice has the columns 1 and x and two short rows, so the
\* enumeration visits the vectors (one, x) with |x| <= MaxEnum; it calls
\* callbackf on each, here in the order of |x|.
MaxEnum == 52

XAt(n) == IF n % 2 = 1 THEN (n + 1) \div 2 ELSE -(n \div 2)
Candidate(i) ==
    [m \in {"1", "x"} |-> IF m = "1" THEN <<1, 0>>[((i - 1) % 2) + 1] ELSE XAt((i - 1) \div 2)]
NumCandidates == 2 * (2 * MaxEnum + 1)

\* callbackf: "if len(partial_solns) > 100", after the candidate is added
TooManyAfterOneMore(solns) == Len(solns) > EnumCap + 1

TooMany(solns) == Len(solns) > EnumCap

EnumLowers == {-1, -2, 2 - MaxEnum, 1 - MaxEnum}
EnumUppers == {1, 2, MaxEnum - 2, MaxEnum - 1, MaxEnum}
EnumCenters == {0, 3}

NoEnum == [state |-> "none", bounds |-> <<>>, centers |-> <<>>, pos |-> 0, accepted |-> FALSE]
IdleEnum == enum = NoEnum /\ partial_solns = <<>> /\ linear_result = ReturnNone

\* LinearSolver.solve up to enum.enumerate: the recentered bounds of x and
\* the center they were shifted by
LinearSolver_recover_short_vectors ==
    /\ enum.state = "none"
    /\ \E l \in EnumLowers, u \in EnumUppers, c \in EnumCenters :
           enum' = [state |-> "enumerating", bounds |-> [v \in {"x"} |-> BoundOf(l, u)],
                    centers |-> [v \in {"x"} |-> c], pos |-> 0, accepted |-> FALSE]
    /\ UNCHANGED <<partial_solns, linear_result>>
    /\ UNCHANGED <<boundVars, idealVars, solverVars, parseVars, convVars, genVars, shiftVars, reductionVars, hhgVars, primalVars, groebnerVars, moduliVars, flatterVars, graphVars, configVars, builderVars, comboVars>>

\* callbackf on the next candidate: a vector that passes the tests is
\* added, and the callback returns True once there are more than 100.  A
\* True ends the enumeration or lets it go on, as the enumerator decides.
callbackf ==
    /\ enum.state = "enumerating"
    /\ enum.pos < NumCandidates
    /\ LET vec == Candidate(enum.pos + 1)
           added == IF Accepted(vec, enum.bounds)
                        THEN Append(partial_solns, PartialSoln(vec)) ELSE partial_solns
           returns == Accepted(vec, enum.bounds) /\ TooMany(added)
       IN  /\ partial_solns' = added
           /\ \E halt \in {FALSE, returns} :
                  enum' = [enum EXCEPT !.pos = @ + 1, !.accepted = @ \/ returns,
                                       !.state = IF halt THEN "halted" ELSE "enumerating"]
    /\ UNCHANGED linear_result
    /\ UNCHANGED <<boundVars, idealVars, solverVars, parseVars, convVars, genVars, shiftVars, reductionVars, hhgVars, primalVars, groebnerVars, moduliVars, flatterVars, graphVars, configVars, builderVars, comboVars>>

\* enum.enumerate ends: with a solution the callback accepted it returns
\* and _recover_short_vectors raises SolveFailureError; with none it raises
\* EnumerationError, and solve returns the roots that pass bounds.check,
\* converted to the old variables
LinearSolver_solve_return ==
    /\ \/ enum.state = "halted"
       \/ enum.state = "enumerating" /\ enum.pos = NumCandidates
    /\ linear_result' =
           IF enum.accepted THEN Raise(SolveFailureError)
           ELSE Value(ConvertToOld(FilterBounds(partial_solns, enum.bounds), enum.centers))
    /\ enum' = [enum EXCEPT !.state = "returned"]
    /\ UNCHANGED partial_solns
    /\ UNCHANGED <<boundVars, idealVars, solverVars, parseVars, convVars, genVars, shiftVars, reductionVars, hhgVars, primalVars, groebnerVars, moduliVars, flatterVars, graphVars, configVars, builderVars, comboVars>>

\* ------------------------------------------------------------------------
\* solver/multivariate_solver/partial/groebner.py: GroebnerSolver.solve on
\* problems over ZZ[x, y] with two integer relations
\* ------------------------------------------------------------------------
MaxCoef == 2

Coefs == -MaxCoef..MaxCoef
GroebnerProblems ==
    {Problem({"x", "y"},
             <<Relation(Poly(f[1], f[2], f[3]), NoModulus), Relation(Poly(g[1], g[2], g[3]), NoModulus)>>,
             SymBounds) : f \in Coefs \X Coefs \X Coefs, g \in Coefs \X {0, 1} \X Coefs}

NoGroebner == [state |-> "none", problem |-> <<>>]
IdleGroebner == groebner = NoGroebner /\ groebner_result = ReturnNone

\* GroebnerSolver(problem).solve()
GroebnerSolver_solve_problem ==
    /\ groebner.state = "none"
    /\ \E problem \in GroebnerProblems :
           /\ groebner' = [state |-> "called", problem |-> problem]
           /\ groebner_result' = GroebnerSolverSolve(problem)
    /\ UNCHANGED <<boundVars, idealVars, solverVars, parseVars, convVars, genVars, shiftVars, reductionVars, hhgVars, primalVars, enumVars, moduliVars, flatterVars, graphVars, configVars, builderVars, comboVars>>

\* ------------------------------------------------------------------------
\* solver/multivariate_solver/full/automated.py: _get_unknown_moduli on its
\* own, for relation sets and partial solutions of every shape
\* ------------------------------------------------------------------------
\* The relations have a modulus k*p (p the unknown modulus symbol), an
\* integer modulus or none; the partial solution assigns some of x, y.
ModuliPolys == {Poly(1, 0, 1), Poly(0, 1, 2), Poly(1, 1, 0), Poly(0, 0, MaxModulus)}
ModuliModuli == {NoModulus, IntModulus(2), SymModulus(1), SymModulus(2), SymModulus(3)}
ModuliRelations == {Relation(f, m) : f \in ModuliPolys, m \in ModuliModuli}
ModuliRelationSets == {<<r>> : r \in ModuliRelations}
                          \cup {<<r1, r2>> : r1 \in ModuliRelations, r2 \in ModuliRelations}
ModuliSolutions == PartialFunctions(Variables, {-2, 0, 1})

NoModuliCall == [state |-> "none", problem |-> <<>>, soln |-> <<>>]
IdleModuli == um_call = NoModuliCall /\ um_result = [raised |-> FALSE, soln |-> <<>>]

\* _expand_solution calls _get_unknown_moduli(relations, partial_soln)
AutomatedSolver_get_unknown_moduli ==
    /\ um_call.state = "none"
    /\ \E rels \in ModuliRelationSets, soln \in ModuliSolutions :
        \E problem \in {Problem(Variables, rels, SymBounds)} :
           /\ um_call' = [state |-> "called", problem |-> problem, soln |-> soln]
           /\ um_result' = GetUnknownModuli(problem, soln)
    /\ UNCHANGED <<boundVars, idealVars, solverVars, parseVars, convVars, genVars, shiftVars, reductionVars, hhgVars, primalVars, enumVars, groebnerVars, flatterVars, graphVars, configVars, builderVars, comboVars>>

\* ------------------------------------------------------------------------
\* strategy/lattice_reduction/flatter.py
\* ------------------------------------------------------------------------
\* A str is the sequence of its characters, a matrix the sequence of its
\* rows.
DigitChars == <<"0", "1", "2", "3", "4", "5", "6", "7", "8", "9",
                "a", "b", "c", "d", "e", "f">>

\* The digits of n >= 0 in a base, most significant first
RECURSIVE Digits(_, _)
Digits(n, base) ==
    IF n < base THEN <<DigitChars[n + 1]>>
    ELSE Digits(n \div base, base) \o <<DigitChars[(n % base) + 1]>>

\* hex(c): "0x" and the hexadecimal digits of |c|, after "-" when c < 0
hex(c) ==
    IF c < 0 THEN <<"-", "0", "x">> \o Digits(-c, 16)
    ELSE <<"0", "x">> \o Digits(c, 16)

\* sep.join(parts)
RECURSIVE join(_, _)
join(sep, parts) ==
    IF parts = <<>> THEN <<>>
    ELSE IF Len(parts) = 1 THEN parts[1]
    ELSE parts[1] \o sep \o join(sep, Tail(parts))

\* s.split(sep) for a separator of one character: never the empty list
RECURSIVE split(_, _)
split(s, sep) ==
    IF \A i \in DOMAIN s : s[i] # sep THEN <<s>>
    ELSE LET i == CHOOSE k \in DOMAIN s : s[k] = sep /\ \A l \in 1..(k - 1) : s[l] # sep
         IN  <<SubSeq(s, 1, i - 1)>> \o split(SubSeq(s, i + 1, Len(s)), sep)

\* s.lstrip(ch) and s.rstrip(ch)
RECURSIVE lstrip(_, _)
lstrip(s, ch) == IF s # <<>> /\ Head(s) = ch THEN lstrip(Tail(s), ch) ELSE s

RECURSIVE rstrip(_, _)
rstrip(s, ch) ==
    IF s # <<>> /\ s[Len(s)] = ch THEN rstrip(SubSeq(s, 1, Len(s) - 1), ch) ELSE s

IsDigit(ch, base) == \E i \in 1..base : DigitChars[i] = ch
DigitValue(ch) == (CHOOSE i \in DOMAIN DigitChars : DigitChars[i] = ch) - 1

RECURSIVE ValueOf(_, _)
ValueOf(digits, base) ==
    IF digits = <<>> THEN 0
    ELSE ValueOf(SubSeq(digits, 1, Len(digits) - 1), base) * base
             + DigitValue(digits[Len(digits)])

\* int(s, 0) in place of int(s): the literal may carry the prefix "0x"
int_of_literal(s) ==
    LET unsigned == IF s # <<>> /\ s[1] \in {"-", "+"} THEN Tail(s) ELSE s
        is_hex == Len(unsigned) >= 2 /\ SubSeq(unsigned, 1, 2) = <<"0", "x">>
        base == IF is_hex THEN 16 ELSE 10
        digits == IF is_hex THEN SubSeq(unsigned, 3, Len(unsigned)) ELSE unsigned
    IN  IF digits = <<>> \/ \E i \in DOMAIN digits : ~IsDigit(digits[i], base) THEN None
        ELSE Some(IF s[1] = "-" THEN -ValueOf(digits, base) ELSE ValueOf(digits, base))

\* int(s): an optional sign and decimal digits, None for ValueError.  (The
\* strings that reach it here hold no white space and no underscore.)
int(s) ==
    LET digits == IF s # <<>> /\ s[1] \in {"-", "+"} THEN Tail(s) ELSE s
    IN  IF digits = <<>> \/ \E i \in DOMAIN digits : ~IsDigit(digits[i], 10) THEN None
        ELSE Some(IF s[1] = "-" THEN -ValueOf(digits, 10) ELSE ValueOf(digits, 10))

\* Flatter.lattice_to_str
lattice_to_str(basis) ==
    LET row_s == [r \in DOMAIN basis |->
                     <<"[">> \o join(<<" ">>, [k \in DOMAIN basis[r] |-> hex(basis[r][k])])
                         \o <<"]">>]
    IN  <<"[">> \o join(<<"\n">>, row_s) \o <<"\n", "]", "\n">>

\* Flatter.lattice_from_str; the rows of the strings read here have one
\* length, so that Matrix(ZZ, rows) is the list of the rows
lattice_from_str(basis_s) ==
    LET rows == split(basis_s, "\n")
        stripped == [r \in 1..(Len(rows) - 2) |-> rstrip(lstrip(rows[r], "["), "]")]
        int_rows == [r \in DOMAIN stripped |->
                      LET entries == split(stripped[r], " ")
                      IN  [k \in DOMAIN entries |-> int(entries[k])]]
    IN  IF rows[Len(rows)] # <<>> THEN Raise("AssertionError")
        ELSE IF Len(rows) < 2 THEN Raise("IndexError")
        ELSE IF rows[Len(rows) - 1] # <<"]">> THEN Raise("AssertionError")
        ELSE IF \E r \in DOMAIN int_rows : \E k \in DOMAIN int_rows[r] : int_rows[r][k] = None
            THEN Raise("ValueError")
        ELSE Value([r \in DOMAIN int_rows |-> [k \in DOMAIN int_rows[r] |-> int_rows[r][k][1]]])

\* What the flatter program may print for a reduced basis: the layout of
\* its input, with the entries as decimal or as hexadecimal literals (the
\* program is no part of this repository)
Literal(c, notation) ==
    IF notation = "hexadecimal" THEN hex(c)
    ELSE IF c < 0 THEN <<"-">> \o Digits(-c, 10) ELSE Digits(c, 10)

flatter_output(reduced, notation) ==
    LET row_s == [r \in DOMAIN reduced |->
                     <<"[">> \o join(<<" ">>, [k \in DOMAIN reduced[r] |->
                                                  Literal(reduced[r][k], notation)])
                         \o <<"]">>]
    IN  <<"[">> \o join(<<"\n">>, row_s) \o <<"\n", "]", "\n">>

\* Bases of the lattice of basis that a reduction may return
Reductions(basis) ==
    {basis,
     [r \in DOMAIN basis |-> basis[Len(basis) + 1 - r]],
     [r \in DOMAIN basis |-> [k \in DOMAIN basis[r] |-> -basis[r][k]]]}

FlatterEntries == {-26, 0, 1, 10}
FlatterShapes == {<<0, 0>>, <<1, 1>>, <<1, 2>>, <<2, 1>>, <<2, 2>>}
FlatterBases ==
    UNION {[1..shape[1] -> [1..shape[2] -> FlatterEntries]] : shape \in FlatterShapes}

NoFlatter == [state |-> "none", basis |-> <<>>, text |-> <<>>, notation |-> "",
              reduced |-> <<>>]
IdleFlatter == flatter = NoFlatter /\ red_basis = ReturnNone

\* Flatter.lattice_to_str called on a basis
Flatter_lattice_to_str ==
    /\ flatter.state = "none"
    /\ \E basis \in FlatterBases :
           flatter' = [NoFlatter EXCEPT !.state = "written", !.basis = basis,
                                        !.text = lattice_to_str(basis)]
    /\ UNCHANGED red_basis
    /\ UNCHANGED <<boundVars, idealVars, solverVars, parseVars, convVars, genVars, shiftVars, reductionVars, hhgVars, primalVars, enumVars, groebnerVars, moduliVars, graphVars, configVars, builderVars, comboVars>>

\* Flatter.lattice_from_str called on the string that lattice_to_str made
Flatter_lattice_from_str ==
    /\ flatter.state = "written"
    /\ flatter' = [flatter EXCEPT !.state = "read"]
    /\ red_basis' = lattice_from_str(flatter.text)
    /\ UNCHANGED <<boundVars, idealVars, solverVars, parseVars, convVars, genVars, shiftVars, reductionVars, hhgVars, primalVars, enumVars, groebnerVars, moduliVars, graphVars, configVars, builderVars, comboVars>>

\* Flatter.reduce_integer_basis: without the program basis.LLL(), else the
\* program's output for lattice_to_str(basis) goes to lattice_from_str
Flatter_reduce_integer_basis ==
    /\ flatter.state = "none"
    /\ \E basis \in FlatterBases, which_flatter \in BOOLEAN,
          notation \in {"decimal", "hexadecimal"} :
         \E reduced \in Reductions(basis) :
            IF ~which_flatter
            THEN /\ flatter' = [NoFlatter EXCEPT !.state = "LLL", !.basis = basis,
                                                 !.reduced = reduced]
                 /\ red_basis' = Value(reduced)
            ELSE /\ flatter' = [state |-> "flatter", basis |-> basis,
                                text |-> flatter_output(reduced, notation),
                                notation |-> notation, reduced |-> reduced]
                 /\ red_basis' = lattice_from_str(flatter_output(reduced, notation))
    /\ UNCHANGED <<boundVars, idealVars, solverVars, parseVars, convVars, genVars, shiftVars, reductionVars, hhgVars, primalVars, enumVars, groebnerVars, moduliVars, graphVars, configVars, builderVars, comboVars>>

\* ------------------------------------------------------------------------
\* strategy/shift_polynomial_selection/graph.py and utils.is_suitable
\* ------------------------------------------------------------------------
\* A polynomial is kept as the set of its monomials and the absolute bound
\* of its leading term; a monomial is its place in the monomial order.  The
\* bounds are powers of two, so that their log2 is an integer.
MaxPolys == 3

GraphMonomials == {1, 2, 3}
LtBounds == {1, 2, 32}
GraphPoly(f_monoms, lt_bound) == [monomials |-> f_monoms, lt_bound |-> lt_bound]

lm(f) == CHOOSE m \in f.monomials : \A other \in f.monomials : other <= m

log2(n) == CHOOSE k \in 0..n : Power(2, k) = n

\* utils.is_suitable
is_suitable(polys) ==
    LET all_monoms == UNION {polys[i].monomials : i \in DOMAIN polys}
        lms == [i \in DOMAIN polys |-> lm(polys[i])]
    IN  Len(lms) = Cardinality(all_monoms) /\ {lms[i] : i \in DOMAIN lms} = all_monoms

\* sorted(polys): polynomials with different leading monomials are in the
\* order of their leading monomials
RECURSIVE sorted(_)
sorted(polys) ==
    IF polys = <<>> THEN <<>>
    ELSE LET i == CHOOSE k \in DOMAIN polys :
                      \A l \in DOMAIN polys : lm(polys[k]) <= lm(polys[l])
         IN  <<polys[i]>> \o sorted([k \in 1..(Len(polys) - 1) |->
                                        IF k < i THEN polys[k] ELSE polys[k + 1]])

\* _refine_once: the edges (i, j) of G, from the leading monomial of a
\* polynomial to its other monomials; monoms.index raises ValueError for a
\* monomial that leads no polynomial
Edges(polys) ==
    {e \in (DOMAIN polys) \X (DOMAIN polys) :
        /\ lm(polys[e[2]]) \in polys[e[1]].monomials
        /\ lm(polys[e[2]]) # lm(polys[e[1]])}

\* _refine_once: the weights -w + avg of the vertices, times len(polys)
Weights_of(polys) ==
    LET unnormalized_weights == [i \in DOMAIN polys |-> log2(polys[i].lt_bound)]
    IN  [i \in DOMAIN polys |->
            -Len(polys) * unnormalized_weights[i] + SeqSum(unnormalized_weights)]

\* _maximum_closure: every edge of G has capacity 0 in place of infinity
CapacityOfTerminalEdges(part, edges, weights) ==
    Some(SeqSum([i \in DOMAIN weights |->
                    IF weights[i] > 0 /\ i \notin part THEN weights[i]
                    ELSE IF weights[i] <= 0 /\ i \in part THEN -weights[i]
                    ELSE 0]))

\* _maximum_closure: the capacity of the cut with part and the source on
\* one side, None for infinity.  An edge of G has infinite capacity, the
\* edge from the source to i has capacity w_i when w_i > 0 and the edge
\* from i to the sink has capacity -w_i otherwise.
Capacity(part, edges, weights) ==
    IF \E e \in edges : e[1] \in part /\ e[2] \notin part THEN None
    ELSE Some(SeqSum([i \in DOMAIN weights |->
                         IF weights[i] > 0 /\ i \notin part THEN weights[i]
                         ELSE IF weights[i] <= 0 /\ i \in part THEN -weights[i]
                         ELSE 0]))

\* _maximum_closure: the source's side, without the source, of a minimum
\* cut; which of several minimum cuts mincut returns is not specified
maximum_closure(edges, weights) ==
    {part \in SUBSET (DOMAIN weights) :
        /\ Capacity(part, edges, weights) # None
        /\ \A other \in SUBSET (DOMAIN weights) :
               Capacity(other, edges, weights) # None
                   => Capacity(part, edges, weights)[1] <= Capacity(other, edges, weights)[1]}

\* _refine_once giving up only at the empty closure
refine_once_unless_empty(polys, subset) ==
    IF subset = {} THEN None
    ELSE Some(SelectSeq(sorted(polys),
                        LAMBDA f : \E i \in subset : sorted(polys)[i] = f))

\* _refine_once for the closure that _maximum_closure returns for
\* sorted(polys): None when its total weight is 0
refine_once(polys, subset) ==
    LET weights == Weights_of(sorted(polys))
        closure_total_weight == SeqSum([i \in DOMAIN weights |->
                                           IF i \in subset THEN weights[i] ELSE 0])
    IN  IF closure_total_weight = 0 THEN None
        ELSE Some(SelectSeq(sorted(polys),
                            LAMBDA f : \E i \in subset : sorted(polys)[i] = f))

\* _approx_shvec_bound(polys) < log2 of the modulus, times len(polys)
IsBeneficial(polys, modulus) ==
    SeqSum([i \in DOMAIN polys |-> log2(polys[i].lt_bound)]) < Len(polys) * log2(modulus)

GraphPolys == {GraphPoly(f_monoms, lt_bound) :
                  f_monoms \in (SUBSET GraphMonomials) \ {{}}, lt_bound \in LtBounds}
GraphModuli == {2, 4}

NoRefinement == [state |-> "none", shift_polys |-> <<>>, polys |-> <<>>, num_iters |-> 0]
IdleGraph == refinement = NoRefinement /\ refined = ReturnNone

\* GraphShiftPolys._refine_shift_polys, up to its loop, for a batch of the
\* sub-strategy.  The batch is a set of polynomials in some order; its
\* moduli are one modulus, or the modulus of its last relation differs.
GraphShiftPolys_refine_shift_polys ==
    /\ refinement.state = "none"
    /\ \E batch \in {b \in SUBSET GraphPolys : Cardinality(b) \in 1..MaxPolys},
          modulus \in GraphModuli, other \in GraphModuli :
         \E polys \in {s \in [1..Cardinality(batch) -> batch] :
                          \A i, j \in DOMAIN s : i < j => lm(s[i]) <= lm(s[j]) /\ s[i] # s[j]} :
           \E batch_rels \in {[i \in DOMAIN polys |->
                                  Relation(polys[i],
                                           IF i = Len(polys) THEN other ELSE modulus)]} :
              IF \E i \in DOMAIN batch_rels : batch_rels[i].modulus # batch_rels[1].modulus
              THEN /\ refinement' = [NoRefinement EXCEPT !.state = "raised",
                                                         !.shift_polys = batch_rels]
                   /\ refined' = Raise("ValueError")
              ELSE IF ~is_suitable(polys)
              THEN /\ refinement' = [NoRefinement EXCEPT !.state = "raised",
                                                         !.shift_polys = batch_rels]
                   /\ refined' = Raise("ValueError")
              ELSE /\ refinement' = [state |-> "loop", shift_polys |-> batch_rels,
                                     polys |-> polys, num_iters |-> 0]
                   /\ UNCHANGED refined
    /\ UNCHANGED <<boundVars, idealVars, solverVars, parseVars, convVars, genVars, shiftVars, reductionVars, hhgVars, primalVars, enumVars, groebnerVars, moduliVars, flatterVars, configVars, builderVars, comboVars>>

\* One turn of the loop of _refine_shift_polys
GraphShiftPolys_refine_once ==
    /\ refinement.state = "loop"
    /\ \E subset \in maximum_closure(Edges(sorted(refinement.polys)),
                                     Weights_of(sorted(refinement.polys))) :
         \E once \in {refine_once(refinement.polys, subset)} :
            IF once = None
            THEN refinement' = [refinement EXCEPT !.state = "converged",
                                                  !.num_iters = @ + 1]
            ELSE refinement' = [refinement EXCEPT !.polys = once[1],
                                                  !.num_iters = @ + 1]
    /\ UNCHANGED refined
    /\ UNCHANGED <<boundVars, idealVars, solverVars, parseVars, convVars, genVars, shiftVars, reductionVars, hhgVars, primalVars, enumVars, groebnerVars, moduliVars, flatterVars, configVars, builderVars, comboVars>>

\* _refine_shift_polys after its loop, and GraphShiftPolys.run, which
\* yields what is not None
GraphShiftPolys_run ==
    /\ refinement.state = "converged"
    /\ IF IsBeneficial(refinement.polys, refinement.shift_polys[1].modulus)
       THEN /\ refinement' = [refinement EXCEPT !.state = "yielded"]
            /\ refined' = Value([i \in DOMAIN refinement.polys |->
                                    Relation(refinement.polys[i],
                                             refinement.shift_polys[1].modulus)])
       ELSE /\ refinement' = [refinement EXCEPT !.state = "skipped"]
            /\ refined' = ReturnNone
    /\ UNCHANGED <<boundVars, idealVars, solverVars, parseVars, convVars, genVars, shiftVars, reductionVars, hhgVars, primalVars, enumVars, groebnerVars, moduliVars, flatterVars, configVars, builderVars, comboVars>>

\* ------------------------------------------------------------------------
\* CoppersmithSolver.__init__ (solver/multivariate_solver/partial/coppersmith.py)
\* ------------------------------------------------------------------------
SmallCoefficient == 100

\* polynomial.coefficients(): the coefficients that are not zero
coefficients(f) == SelectSeq(<<f.x, f.y, f.c>>, LAMBDA c : c # 0)

is_constant(f) == f.x = 0 /\ f.y = 0

\* CoppersmithSolver._get_configuration
get_configuration(relations) ==
    [modulus_multiple_known |->
         \E j \in DOMAIN relations :
             /\ relations[j].modulus.kind # "none"
             /\ is_constant(relations[j].polynomial) \/ relations[j].modulus.kind = "int",
     has_symbolic_moduli |->
         \E j \in DOMAIN relations : relations[j].modulus.kind \notin {"none", "int"}]

\* _get_use_graph_optimization looking for several relations with a small
\* coefficient
get_use_graph_optimization_by_relations(relations, unrav_lin) ==
    IF ~get_configuration(relations).modulus_multiple_known THEN FALSE
    ELSE IF unrav_lin # None /\ Len(unrav_lin[1]) > 0 THEN TRUE
    ELSE Cardinality({j \in DOMAIN relations :
                         \E k \in DOMAIN coefficients(relations[j].polynomial) :
                             Abs(coefficients(relations[j].polynomial)[k]) < SmallCoefficient})
             <= 1

\* CoppersmithSolver._get_use_graph_optimization; unrav_lin is self._ul,
\* None or a list
get_use_graph_optimization(relations, unrav_lin) ==
    IF ~get_configuration(relations).modulus_multiple_known THEN FALSE
    ELSE IF unrav_lin # None /\ Len(unrav_lin[1]) > 0 THEN TRUE
    ELSE ~\E j \in DOMAIN relations :
             Len(SelectSeq(coefficients(relations[j].polynomial),
                           LAMBDA c : Abs(c) < SmallCoefficient)) > 1

ConfigCoefficients == {0, -(SmallCoefficient - 1), SmallCoefficient}
ConfigPolys == {Poly(a, b, c) : a \in ConfigCoefficients, b \in ConfigCoefficients,
                                c \in ConfigCoefficients}
ConfigModuli == {NoModulus, IntModulus(SmallCoefficient + 1), SymModulus(1)}
ConfigRelations == {Relation(f, m) : f \in ConfigPolys, m \in ConfigModuli}
UnravLinArgs == {None, Some(<<>>), Some(<<Poly(1, 1, 0)>>)}
FlagArgs == {None, Some(TRUE), Some(FALSE)}

NoConfig == [state |-> "none", relations |-> <<>>, unrav_lin |-> None,
             use_graph_optimization |-> None]
NoStrategies == [shift_poly_strategy |-> "", lattice_building_strategy |-> ""]
IdleConfig == solver_config = NoConfig /\ strategies = NoStrategies

\* CoppersmithSolver.__init__ with use_primal_strategy and
\* use_intermediate_sizes not given
CoppersmithSolver_init ==
    /\ solver_config.state = "none"
    /\ \E first \in ConfigRelations, second \in ConfigRelations, two \in BOOLEAN,
          unrav_lin \in UnravLinArgs, flag \in FlagArgs :
         \E relations \in {IF two THEN <<first, second>> ELSE <<first>>} :
           \E use_graph \in {IF flag = None
                                 THEN get_use_graph_optimization(relations, unrav_lin)
                                 ELSE flag[1]} :
              IF use_graph /\ ~get_configuration(relations).modulus_multiple_known
              THEN /\ solver_config' = [state |-> "ValueError", relations |-> relations,
                                        unrav_lin |-> unrav_lin,
                                        use_graph_optimization |-> flag]
                   /\ strategies' = [NoStrategies EXCEPT
                                        !.shift_poly_strategy = "OptimalShiftPolys"]
              ELSE /\ solver_config' = [state |-> "constructed", relations |-> relations,
                                        unrav_lin |-> unrav_lin,
                                        use_graph_optimization |-> flag]
                   /\ strategies' =
                          [shift_poly_strategy |->
                               IF use_graph THEN "GraphShiftPolys" ELSE "OptimalShiftPolys",
                           lattice_building_strategy |->
                               IF get_configuration(relations).modulus_multiple_known
                                      \/ get_configuration(relations).has_symbolic_moduli
                                   THEN "DualLatticeBuilder" ELSE "PrimalLatticeBuilder"]
    /\ UNCHANGED <<boundVars, idealVars, solverVars, parseVars, convVars, genVars, shiftVars, reductionVars, hhgVars, primalVars, enumVars, groebnerVars, moduliVars, flatterVars, graphVars, builderVars, comboVars>>

\* ------------------------------------------------------------------------
\* strategy/lattice_builder/primal.py
\* ------------------------------------------------------------------------
\* polynomial.monomials() of a x + b y + c
monomials_of(f) ==
    PolyVars(f) \cup (IF f.c # 0 THEN {"1"} ELSE {})

monomial_coefficient(f, m) == IF m = "1" THEN f.c ELSE Coef(f, m)

\* sorted(list(set(monomials))): 1 < y < x in the order of the ring
sorted_monomials(relations) ==
    SelectSeq(<<"1", "y", "x">>,
              LAMBDA m : \E j \in DOMAIN relations : m \in monomials_of(relations[j].polynomial))

\* mod_rel_ind when the loop of run is at relation j: the relations with a
\* modulus before it
mod_rel_ind(relations, j) ==
    Cardinality({k \in 1..(j - 1) : relations[k].modulus.kind # "none"})

\* The matrix M that run fills: 1 on the diagonal of all its rows, then for
\* relation j the coefficients in column num_monoms + j and, for a modular
\* relation, the modulus in row num_monoms + mod_rel_ind of that column
PrimalBasis(relations) ==
    LET monoms == sorted_monomials(relations)
        num_monoms == Len(monoms)
        num_mod_rels == Cardinality({j \in DOMAIN relations :
                                        relations[j].modulus.kind # "none"})
    IN  [i \in 1..(num_monoms + num_mod_rels) |->
            [col \in 1..(num_monoms + Len(relations)) |->
                IF col <= num_monoms THEN (IF i = col THEN 1 ELSE 0)
                ELSE IF i <= num_monoms
                    THEN monomial_coefficient(relations[col - num_monoms].polynomial, monoms[i])
                ELSE IF /\ relations[col - num_monoms].modulus.kind # "none"
                        /\ i = num_monoms + mod_rel_ind(relations, col - num_monoms) + 1
                    THEN relations[col - num_monoms].modulus.val
                ELSE IF i = col THEN 1
                ELSE 0]]

\* PrimalLatticeBuilder.run
PrimalLatticeBuilder_run_on(relations, bnds) ==
    IF \E j \in DOMAIN relations : relations[j].modulus.kind \notin {"none", "int"}
    THEN Raise("TypeError")
    ELSE Value(Lattice(PrimalBasis(relations), sorted_monomials(relations), TRUE, None,
                       [col \in 1..(Len(sorted_monomials(relations)) + Len(relations)) |->
                           IF col <= Len(sorted_monomials(relations))
                           THEN Finite(1, AbsBound(bnds, sorted_monomials(relations)[col]))
                           ELSE Infinity]))

BuilderPolys == {Poly(1, 0, -1), Poly(1, -1, 0), Poly(1, 1, 0), Poly(0, 1, -2)}
BuilderModuli == {NoModulus, IntModulus(4), SymModulus(1)}
BuilderRelations == {Relation(f, m) : f \in BuilderPolys, m \in BuilderModuli}

NoBuilder == [state |-> "none", relations |-> <<>>]
IdleBuilder == builder = NoBuilder /\ built = ReturnNone

\* PrimalLatticeBuilder.run on one to three relations
PrimalLatticeBuilder_run ==
    /\ builder.state = "none"
    /\ \E first \in BuilderRelations, second \in BuilderRelations,
          third \in BuilderRelations, count \in 1..3 :
         \E relations \in {SubSeq(<<first, second, third>>, 1, count)} :
            /\ builder' = [state |-> "run", relations |-> relations]
            /\ built' = PrimalLatticeBuilder_run_on(relations, SymBounds)
    /\ UNCHANGED <<boundVars, idealVars, solverVars, parseVars, convVars, genVars, shiftVars, reductionVars, hhgVars, primalVars, enumVars, groebnerVars, moduliVars, flatterVars, graphVars, configVars, comboVars>>

\* ------------------------------------------------------------------------
\* utils.py: weighted_combinations
\* ------------------------------------------------------------------------
\* The weights are floats in the source; here they are the integers
\* 0..MaxWeight, of which the sums and products are exact.  The heap holds
\* no pair twice ("not in heap"), and the score of a pair is a function of
\* its exps, so the heap is kept as the set of its exps.
MaxWeight == 3
MaxYields == MaxWeight + 4

\* sum(ai * bi for ai, bi in zip(weights, new_exps)) without the weights
count_of_exps(weights, new_exps) == SeqSum(new_exps)

\* sum(ai * bi for ai, bi in zip(weights, new_exps))
new_score(weights, new_exps) ==
    SeqSum([i \in DOMAIN new_exps |-> weights[i] * new_exps[i]])

ScoredPair(weights, exps) == [score |-> new_score(weights, exps), exps |-> exps]

\* (score, exps) < (other_score, other_exps) as Python orders tuples
PairLess(pair, other) ==
    \/ pair.score < other.score
    \/ pair.score = other.score /\ TupleLess(pair.exps, other.exps)

\* heappop(heap): the least pair of the heap
least_pair(h, weights) ==
    CHOOSE exps \in h : \A other \in h \ {exps} :
        PairLess(ScoredPair(weights, exps), ScoredPair(weights, other))

\* One turn of "while True", up to its yield
weighted_combinations_turn(h, weights) ==
    [yield |-> ScoredPair(weights, least_pair(h, weights)),
     heap |-> (h \ {least_pair(h, weights)}) \cup Successors(least_pair(h, weights))]

ComboWeights == UNION {[1..n -> 0..MaxWeight] : n \in 0..2}

NoCombinations == [state |-> "none", weights |-> <<>>, heap |-> {}, yielded |-> <<>>]
IdleCombinations == combinations = NoCombinations

\* weighted_combinations is a generator function: the call binds weights
\* and runs nothing
weighted_combinations ==
    /\ combinations.state = "none"
    /\ \E weights \in ComboWeights :
           combinations' = [NoCombinations EXCEPT !.state = "created", !.weights = weights]
    /\ UNCHANGED <<boundVars, idealVars, solverVars, parseVars, convVars, genVars, shiftVars, reductionVars, hhgVars, primalVars, enumVars, groebnerVars, moduliVars, flatterVars, graphVars, configVars, builderVars>>

\* next() on the generator: the first call makes the heap of the zero
\* vector; each call pops the heap, pushes the successors and yields.
\* heappop of the empty heap (no weight at all, second call) raises
\* IndexError.
weighted_combinations_next ==
    /\ combinations.state \in {"created", "suspended"}
    /\ Len(combinations.yielded) < MaxYields
    /\ \E h \in {IF combinations.state = "created"
                     THEN {[i \in DOMAIN combinations.weights |-> 0]}
                     ELSE combinations.heap} :
         IF h = {}
         THEN combinations' = [combinations EXCEPT !.state = "IndexError"]
         ELSE \E turn \in {weighted_combinations_turn(h, combinations.weights)} :
                 combinations' = [combinations EXCEPT
                                     !.state = "suspended",
                                     !.heap = turn.heap,
                                     !.yielded = Append(@, turn.yield)]
    /\ UNCHANGED <<boundVars, idealVars, solverVars, parseVars, convVars, genVars, shiftVars, reductionVars, hhgVars, primalVars, enumVars, groebnerVars, moduliVars, flatterVars, graphVars, configVars, builderVars>>

\* ------------------------------------------------------------------------
\* Specifications
\* ------------------------------------------------------------------------
IdleBounds == bounds = <<>> /\ solution = <<>> /\ check_result = "idle"
IdleIdeal == J1 = EmptyIdeal /\ J2 = EmptyIdeal /\ J_result = NoResult
IdleSolver ==
    /\ stack = <<>> /\ ret = NoRet /\ last_return = NoReturn /\ result = NoRet
    /\ shift_poly_strategy = Unbounded
IdleStages == IdleGen /\ IdleShift /\ IdleReduction /\ IdleHHG /\ IdlePrimal /\ IdleEnum /\ IdleGroebner /\ IdleModuli /\ IdleFlatter /\ IdleGraph /\ IdleConfig /\ IdleBuilder /\ IdleCombinations

BoundSet_check == CheckBounds /\ UNCHANGED <<idealVars, solverVars, parseVars, convVars, stageVars>>
RelationIdeal_add == AddIdeals /\ UNCHANGED <<boundVars, solverVars, parseVars, convVars, stageVars>>
RelationIdeal_mul == MulIdeals /\ UNCHANGED <<boundVars, solverVars, parseVars, convVars, stageVars>>

BoundsInit == InitBounds /\ IdleIdeal /\ IdleSolver /\ IdleParse /\ IdleConv /\ IdleStages
NextBounds == BoundSet_check
SpecBounds == BoundsInit /\ [][NextBounds]_vars

IdealInit == InitIdeal /\ IdleBounds /\ IdleSolver /\ IdleParse /\ IdleConv /\ IdleStages
NextIdeal == RelationIdeal_add \/ RelationIdeal_mul
SpecIdeal == IdealInit /\ [][NextIdeal]_vars

Init == InitSolver /\ IdleBounds /\ IdleIdeal /\ IdleParse /\ IdleConv /\ IdleStages
Next ==
    \/ AutomatedSolver_solve
    \/ AutomatedSolver_expand_solution
    \/ AutomatedSolver_get_remaining_unknowns
    \/ AutomatedSolver_merge
    \/ LinearSolver_solve
    \/ GroebnerSolver_solve
    \/ CoppersmithSolver_solve
    \/ CoppersmithSolver_shift_batch
    \/ CoppersmithSolver_root_recovery
    \/ find_small_roots
Spec == Init /\ [][Next]_vars
FairSpec == Spec /\ WF_vars(Next)

ParseInit == IdleParse /\ IdleBounds /\ IdleIdeal /\ IdleSolver /\ IdleConv /\ IdleStages
NextParse == Wrapper_parse_relations \/ Wrapper_parse_bounds
SpecParse == ParseInit /\ [][NextParse]_vars

ConvInit == IdleConv /\ IdleBounds /\ IdleIdeal /\ IdleSolver /\ IdleParse /\ IdleStages
NextConv ==
    \/ ChainConverter_run_problem
    \/ ChainSolnConverter_convert_solution_to_new
    \/ ChainSolnConverter_convert_solution_to_old
SpecConv == ConvInit /\ [][NextConv]_vars

GenInit == IdleStages /\ IdleBounds /\ IdleIdeal /\ IdleSolver /\ IdleParse /\ IdleConv
NextGen == RelationIdealGenerator_run \/ RelationIdealGenerator_next
SpecGen == GenInit /\ [][NextGen]_vars

ShiftInit == IdleStages /\ IdleBounds /\ IdleIdeal /\ IdleSolver /\ IdleParse /\ IdleConv
NextShift == OptimalShiftPolys_get_shift_polys_for_ideal \/ OptimalShiftPolys_next
SpecShift == ShiftInit /\ [][NextShift]_vars

ReductionInit == IdleStages /\ IdleBounds /\ IdleIdeal /\ IdleSolver /\ IdleParse /\ IdleConv
NextReduction == LatticeReduction_run \/ LatticeReduction_reduce
SpecReduction == ReductionInit /\ [][NextReduction]_vars

HHGInit == IdleStages /\ IdleBounds /\ IdleIdeal /\ IdleSolver /\ IdleParse /\ IdleConv
NextHHG == HastadHowgraveGraham_recover_int_relations
SpecHHG == HHGInit /\ [][NextHHG]_vars

PrimalInit == IdleStages /\ IdleBounds /\ IdleIdeal /\ IdleSolver /\ IdleParse /\ IdleConv
NextPrimal == PrimalRecovery_run
SpecPrimal == PrimalInit /\ [][NextPrimal]_vars

EnumInit == IdleStages /\ IdleBounds /\ IdleIdeal /\ IdleSolver /\ IdleParse /\ IdleConv
NextEnum == LinearSolver_recover_short_vectors \/ callbackf \/ LinearSolver_solve_return
SpecEnum == EnumInit /\ [][NextEnum]_vars

GroebnerInit == IdleStages /\ IdleBounds /\ IdleIdeal /\ IdleSolver /\ IdleParse /\ IdleConv
NextGroebner == GroebnerSolver_solve_problem
SpecGroebner == GroebnerInit /\ [][NextGroebner]_vars

ModuliInit == IdleStages /\ IdleBounds /\ IdleIdeal /\ IdleSolver /\ IdleParse /\ IdleConv
NextModuli == AutomatedSolver_get_unknown_moduli
SpecModuli == ModuliInit /\ [][NextModuli]_vars

FlatterInit == IdleStages /\ IdleBounds /\ IdleIdeal /\ IdleSolver /\ IdleParse /\ IdleConv
NextFlatter ==
    \/ Flatter_lattice_to_str
    \/ Flatter_lattice_from_str
    \/ Flatter_reduce_integer_basis
SpecFlatter == FlatterInit /\ [][NextFlatter]_vars

GraphInit == IdleStages /\ IdleBounds /\ IdleIdeal /\ IdleSolver /\ IdleParse /\ IdleConv
NextGraph ==
    \/ GraphShiftPolys_refine_shift_polys
    \/ GraphShiftPolys_refine_once
    \/ GraphShiftPolys_run
SpecGraph == GraphInit /\ [][NextGraph]_vars

ConfigInit == IdleStages /\ IdleBounds /\ IdleIdeal /\ IdleSolver /\ IdleParse /\ IdleConv
NextConfig == CoppersmithSolver_init
SpecConfig == ConfigInit /\ [][NextConfig]_vars

BuilderInit == IdleStages /\ IdleBounds /\ IdleIdeal /\ IdleSolver /\ IdleParse /\ IdleConv
NextBuilder == PrimalLatticeBuilder_run
SpecBuilder == BuilderInit /\ [][NextBuilder]_vars
CombinationsInit == IdleStages /\ IdleBounds /\ IdleIdeal /\ IdleSolver /\ IdleParse /\ IdleConv
NextCombinations == weighted_combinations \/ weighted_combinations_next
SpecCombinations == CombinationsInit /\ [][NextCombinations]_vars

\* ------------------------------------------------------------------------
\* Properties
\* ------------------------------------------------------------------------
\* The log of every AutomatedPartialSolver call, in progress or just ended
Logs ==
    {stack[j].log : j \in {k \in DOMAIN stack : stack[k].cls = "AutomatedPartialSolver"}}
        \cup (IF last_return.cls = "AutomatedPartialSolver" THEN {last_return.log} ELSE {})

LogEntries == UNION {{log[k] : k \in DOMAIN log} : log \in Logs}

C2_NeverReturnsEmptyList == result # Value(<<>>)

\* C3: AutomatedPartialSolver.solve runs LinearSolver, GroebnerSolver and
\* CoppersmithSolver in this order, a later one only after every earlier one
\* raised SolveFailureError; it returns the result of the first solver that
\* does not raise, unchanged, and raises SolveFailureError if all three raise.
C3_Order(log) ==
    /\ Len(log) <= 3
    /\ \A k \in DOMAIN log :
          /\ log[k][1] = <<"LinearSolver", "GroebnerSolver", "CoppersmithSolver">>[k]
          /\ k < Len(log) => log[k][2] = Raise(SolveFailureError)

C3_FixedOrderFirstSuccess ==
    /\ \A j \in DOMAIN stack :
          stack[j].cls = "AutomatedPartialSolver" =>
              /\ C3_Order(stack[j].log)
              /\ \A k \in DOMAIN stack[j].log : stack[j].log[k][2] = Raise(SolveFailureError)
              /\ stack[j].idx = Len(stack[j].log) + 1
    /\ last_return.cls = "AutomatedPartialSolver" =>
          /\ C3_Order(last_return.log)
          /\ last_return.log # <<>>
          /\ last_return.outcome = last_return.log[Len(last_return.log)][2]
          /\ last_return.outcome = Raise(SolveFailureError) => Len(last_return.log) = 3

\* GroebnerSolver's result is returned after LinearSolver raised.
C3_Witness ==
    /\ last_return.cls = "AutomatedPartialSolver"
    /\ Len(last_return.log) = 2
    /\ last_return.log[1] = <<"LinearSolver", Raise(SolveFailureError)>>
    /\ last_return.outcome.kind = "value"
    /\ last_return.outcome.value # <<>>

C5_NoEmptyPartialSolutionSet ==
    \A entry \in LogEntries : entry[2] # Value(<<>>)

C9_CheckIsStrict ==
    check_result \in {"true", "false"} =>
        (check_result = "true" <=>
            \A xi \in DOMAIN bounds \cap DOMAIN solution :
                /\ bounds[xi].lower # None => bounds[xi].lower[1] < solution[xi]
                /\ bounds[xi].upper # None => solution[xi] < bounds[xi].upper[1])

\* A value on the upper edge of its bound makes the check false, although a
\* bounded variable is unassigned and every other value is strictly inside.
C9_Witness ==
    /\ check_result = "false"
    /\ DOMAIN bounds = {"x", "y"}
    /\ DOMAIN solution = {"x"}
    /\ bounds["x"].upper # None
    /\ solution["x"] = bounds["x"].upper[1]

\* C10: for RelationIdeals with integer moduli a and b the modulus of the sum
\* is lcm(a, b) and the modulus of the product is a*b; an ideal whose modulus
\* is None is the identity of both operations in either operand order.
C10_SumAndProductModulus ==
    (J_result.op \in {"add", "mul"} /\ J_result.exc = "") =>
        J_result.value.modulus =
            IF J1.modulus = None THEN J2.modulus
            ELSE IF J2.modulus = None THEN J1.modulus
            ELSE IF J_result.op = "add" THEN Some(lcm(J1.modulus[1], J2.modulus[1]))
            ELSE Some(J1.modulus[1] * J2.modulus[1])

\* The documented errors of the input stage
ParseErrors == {"ValueError", "TypeError"}

\* C7: parse_relations raises when the relation list mixes representations,
\* when a modulus or a hint is given although the relations carry their
\* modulus, and when a list of moduli has another length than the relations.
C7_RejectsInconsistentInput ==
    parsed.called =>
        /\ Cardinality(parsed.call.representations) > 1 => parsed.result.exc \in ParseErrors
        /\ (parsed.call.given /\ parsed.call.carry_modulus) => parsed.result.exc \in ParseErrors
        /\ (\E len \in parsed.call.list_lengths : len # parsed.call.n_rels)
              => parsed.result.exc \in ParseErrors

\* C7, parts (a) and (b) alone
C7_RejectsMixedAndRedundant ==
    parsed.called =>
        /\ Cardinality(parsed.call.representations) > 1 => parsed.result.exc \in ParseErrors
        /\ (parsed.call.given /\ parsed.call.carry_modulus) => parsed.result.exc \in ParseErrors

\* C8: parse_bounds returns a BoundSet, raising nothing, for a BoundSet, a
\* dict, a list of one positive bound per unknown and a positive integer.
C8_AcceptsDocumentedShapes ==
    (/\ parsed_bounds.called
     /\ \A k \in DOMAIN parsed_bounds.bounds.values : parsed_bounds.bounds.values[k] > 0
     /\ \/ parsed_bounds.bounds.type \in {"BoundSet", "dict", "int"}
        \/ /\ parsed_bounds.bounds.type = "list"
           /\ Len(parsed_bounds.bounds.values) = parsed.result.n_gens)
    => parsed_bounds.exc = ""

\* C8 for every shape but the BoundSet
C8_AcceptsDictListInt ==
    (/\ parsed_bounds.called
     /\ \A k \in DOMAIN parsed_bounds.bounds.values : parsed_bounds.bounds.values[k] > 0
     /\ \/ parsed_bounds.bounds.type \in {"dict", "int"}
        \/ /\ parsed_bounds.bounds.type = "list"
           /\ Len(parsed_bounds.bounds.values) = parsed.result.n_gens)
    => parsed_bounds.exc = ""
\* C11: converting a Solution that assigns every original variable to the
\* new variables and back returns the original Solution, for each converter
\* of the chain (RecenterSolution, the renaming, UnravelSolution) and for the
\* whole ChainSolnConverter; the u_i are discarded on the way back.
C11_RoundTrip ==
    preimages # <<>> =>
        /\ Len(preimages) = Len(images)
        /\ \A k \in DOMAIN images : preimages[k] = images[k]

\* A solution with a modulus key went through recentering with a center that
\* is not 0, the renaming and the unraveled linearization, and came back.
C11_Witness ==
    /\ preimages # <<>>
    /\ Len(images) = 4
    /\ "p" \in DOMAIN images[1]
    /\ "u_1" \in DOMAIN images[4]
    /\ \E i \in DOMAIN converted.output.soln_converters[1].centers :
          converted.output.soln_converters[1].centers[i] # 0
    /\ preimages[1] = images[1]

\* C12: a solution satisfies the bounds and relations of the original problem
\* if and only if its image satisfies those of the problem of
\* ChainConverter.run; for values strictly inside the original bounds every
\* u_i is strictly inside its derived bounds.
C12_ChecksAgree ==
    images # <<>> =>
        /\ ConvProblemCheck(converted.input, images[1])
              <=> ConvProblemCheck(converted.output.problem, images[Len(images)])
        /\ BoundSetCheck(converted.input.bounds, images[1])
              => BoundSetCheck(converted.output.problem.bounds, images[Len(images)])

\* A solution of a recentered and unraveled problem satisfies both problems.
C12_Witness ==
    /\ images # <<>>
    /\ Len(images) = 4
    /\ ConvProblemCheck(converted.input, images[1])
    /\ ConvProblemCheck(converted.output.problem, images[4])
    /\ \E i \in DOMAIN converted.output.soln_converters[1].centers :
          converted.output.soln_converters[1].centers[i] # 0

\* The recentering of the last ChainConverter.run
Recentering == converted.output.soln_converters[1]
OldBound(i) == converted.input.bounds[Recentering.old_ring[i]]
NewBound(i) == converted.output.problem.bounds[Recentering.new_ring[i]]

CanonicalSize(sz) == \E n \in 0..sz : sz = Power(2, n) \/ sz = 3 * Power(2, n)

\* The lengths the list had after each of the first k monomials
LengthsAfter(k) == [i \in 1..k |-> Len(ShiftPolysAfter(monomials, i))]

BatchSizes == [b \in DOMAIN batches |-> Len(batches[b])]

\* C15 as stated: with use_intermediate_sizes, a prefix of the list is
\* yielded exactly when its length is 2^n or 3*2^n (1, 2, 4, 6, 8, ...),
\* and the complete list is the last batch.
C15_YieldsAtCanonicalSizes ==
    shift_gen.use_intermediate_sizes =>
        /\ \A sz \in 1..Len(shift_polys) :
               CanonicalSize(sz) => \E b \in DOMAIN batches : Len(batches[b]) = sz
        /\ \A b \in DOMAIN batches :
               CanonicalSize(Len(batches[b])) \/ batches[b] = ShiftPolysAfter(monomials, Len(monomials))

\* C15, amended: with use_intermediate_sizes, the list is yielded after a
\* monomial exactly when its length is then at least 2 and 2^n or 3*2^n
\* (2, 3, 4, 6, 8, 12, ...), once more for each monomial that adds
\* nothing; a list of another length is yielded only complete, and once
\* the generator has ended the non-empty complete list is the last batch.
C15_YieldsAtSizesFromTwo ==
    shift_gen.use_intermediate_sizes =>
        LET all == ShiftPolysAfter(monomials, Len(monomials))
            inloop == SelectSeq(LengthsAfter(shift_gen.pos),
                                LAMBDA sz : sz >= 2 /\ CanonicalSize(sz))
            ended == shift_gen.state \in {"final", "StopIteration"}
            last == IF ended /\ all # <<>> /\ ~(Len(all) >= 2 /\ CanonicalSize(Len(all)))
                        THEN <<Len(all)>> ELSE <<>>
        IN  /\ BatchSizes = inloop \o last
            /\ \A b \in DOMAIN batches : batches[b] = SubSeq(all, 1, Len(batches[b]))
            /\ ended /\ all # <<>> =>
                   batches # <<>> /\ batches[Len(batches)] = all
            /\ shift_gen.state = "StopIteration" /\ all = <<>> => batches = <<>>

\* The generator has ended after yielding prefixes of 2 and 3 shift
\* polynomials, one of them twice, and the complete list of 5 last.
C15_Witness ==
    /\ shift_gen.use_intermediate_sizes
    /\ shift_gen.state = "StopIteration"
    /\ \E b \in DOMAIN BatchSizes : BatchSizes[b] = 2
    /\ \E b \in DOMAIN BatchSizes : BatchSizes[b] = 3
    /\ \E b \in 1..(Len(batches) - 1) : batches[b] = batches[b + 1]
    /\ Len(batches[Len(batches)]) = 5

\* The infinite-scaled columns and the rows that have to vanish in them
InfiniteColumns == {j \in DOMAIN lattice.scale_factors : lattice.scale_factors[j] = Infinity}
ExpectedZeroRows == 1..(rank(lattice) - Cardinality(InfiniteColumns))

ZeroInInfiniteColumns(basis) ==
    \A i \in ExpectedZeroRows : \A j \in InfiniteColumns : basis[i][j] = 0

\* C16: LatticeReduction.run returns only after a reduction whose first
\* rank - (number of infinite-scaled columns) rows are zero in every
\* infinite-scaled column; a reduction that fails this is followed by
\* another one with a larger weight on those columns; and the returned
\* lattice keeps the monomials, modulus, scale factors and primal flag.
C16_ReturnsOnlySufficientReduction ==
    /\ [](reduction.state = "returned" =>
            /\ ZeroInInfiniteColumns(reduction.red_scaled_basis)
            /\ ZeroInInfiniteColumns(red_lattice.basis)
            /\ red_lattice.monomials = lattice.monomials
            /\ red_lattice.modulus = lattice.modulus
            /\ red_lattice.scale_factors = lattice.scale_factors
            /\ red_lattice.is_primal = lattice.is_primal)
    /\ [][reduction.state = "reduce" /\ reduction'.turns = reduction.turns + 1
             /\ ~ZeroInInfiniteColumns(reduction'.red_scaled_basis) =>
                 /\ reduction'.state = "reduce"
                 /\ reduction'.inf_factor > reduction.inf_factor
                 /\ \A j \in InfiniteColumns :
                        reduction'.int_scale_factors[j] > reduction.int_scale_factors[j]]_vars

\* A lattice with a modulus has been returned after a reduction that was
\* insufficient and one that left the first row zero in the infinite column.
C16_Witness ==
    /\ reduction.state = "returned"
    /\ reduction.turns >= 2
    /\ lattice.modulus # None
    /\ InfiniteColumns # {} /\ ExpectedZeroRows # {}
    /\ \E i \in DOMAIN red_lattice.basis : \E j \in InfiniteColumns : red_lattice.basis[i][j] # 0

\* The rows of the dual lattice of the call whose scaled L1 norm is below
\* the lower bound of the modulus
QualifyingRows ==
    {i \in 1..rank(hhg.lattice) :
        Norm1(get_scaled_vector(hhg.lattice, i)) < hhg.lattice.modulus[1]}

\* C17: on a dual lattice with a modulus and finite scaled rows,
\* recover_int_relations selects exactly the rows whose scaled L1 norm is
\* strictly below the lower bound of the modulus, returns each as the
\* relation sum(row entry * monomial) with modulus None, and raises
\* SolveFailureError when no row qualifies.
C17_SelectsRowsBelowL1Bound ==
    /\ hhg.state = "called"
    /\ hhg.lattice.modulus # None
    /\ hhg.lattice.is_primal = FALSE
    /\ \A i \in 1..rank(hhg.lattice) : ~InfinitelyLarge(hhg.lattice, i)
    => /\ QualifyingRows = {} <=> int_relations.exc = "SolveFailureError"
       /\ QualifyingRows # {} =>
              /\ int_relations.exc = ""
              /\ {int_relations.inds[k] : k \in DOMAIN int_relations.inds} = QualifyingRows
              /\ \A k \in DOMAIN int_relations.rels :
                     /\ int_relations.rels[k].modulus = None
                     /\ int_relations.rels[k].polynomial =
                            get_relation(hhg.lattice, int_relations.inds[k]).polynomial

\* The candidate root that the single qualifying vector of the call gives:
\* the entries of the unknowns' columns, with the sign that makes the
\* entry of the column of 1 non-negative
CandidateVector ==
    LET L == recovery.lattice
        vec == get_vector(L, recover_short_vectors(L)[1])
    IN  IF vec[IndexOf(L.monomials, One)] < 0 THEN [j \in DOMAIN vec |-> -vec[j]] ELSE vec

CandidateRoot ==
    [x_i \in recovery.variables |-> CandidateVector[IndexOf(recovery.lattice.monomials, VarMonomial(x_i))]]

Recoverable ==
    LET L == recovery.lattice
    IN  /\ Len(recover_short_vectors(L)) = 1
        /\ \E j \in DOMAIN L.monomials : L.monomials[j] = One
        /\ \A x_i \in recovery.variables :
               \E j \in DOMAIN L.monomials : L.monomials[j] = VarMonomial(x_i)
        /\ \A j \in DOMAIN L.monomials :
               Subs(L.monomials[j], CandidateRoot) = Some(CandidateVector[j])

\* C18: PrimalRecovery.run raises SolveFailureError whenever the number of
\* qualifying vectors is not one, 1 is no column, some unknown is no
\* column, or a monomial evaluated at the candidate root differs from its
\* entry; only otherwise it returns the single sign-normalized root.
C18_FailureUnlessConsistentSingleVector ==
    recovery.state = "called" =>
        IF Recoverable THEN primal_result = PrimalReturned(<<CandidateRoot>>)
        ELSE primal_result = PrimalRaised("SolveFailureError")

\* C19: LinearSolver.solve returns at most 100 candidate roots, each
\* strictly inside the bounds of the problem (the recentered bounds moved
\* back by the center); when the enumeration has collected more than 100
\* candidates it raises SolveFailureError instead.
C19_AtMostEnumCapRootsInBounds ==
    enum.state = "returned" =>
        /\ linear_result.kind = "value" =>
               /\ Len(linear_result.value) <= EnumCap
               /\ \A k \in DOMAIN linear_result.value :
                      /\ enum.bounds["x"].lower[1] + enum.centers["x"] < linear_result.value[k]["x"]
                      /\ linear_result.value[k]["x"] < enum.bounds["x"].upper[1] + enum.centers["x"]
        /\ Len(partial_solns) > EnumCap => linear_result = Raise(SolveFailureError)

\* solve has returned exactly 100 roots of a problem whose center is not 0
C19_Witness ==
    /\ enum.state = "returned"
    /\ linear_result.kind = "value"
    /\ Len(linear_result.value) = EnumCap
    /\ enum.centers["x"] # 0
    /\ \E k \in DOMAIN linear_result.value :
           linear_result.value[k]["x"] = enum.bounds["x"].upper[1] + enum.centers["x"] - 1

\* C20: in the multivariate case every root that GroebnerSolver returns is
\* an integer-valued point of the variety of the integer relations: each
\* of them vanishes at the root; a point with a non-integer coordinate is
\* dropped, never rounded or truncated into a root.
C20_ReturnsOnlyIntegerPoints ==
    groebner.state = "called" /\ groebner_result.kind = "value" =>
        \A k \in DOMAIN groebner_result.value :
            \A j \in DOMAIN groebner.problem.relations :
                IsZero(PolySubs(groebner.problem.relations[j].polynomial, groebner_result.value[k]))

\* C21: _get_unknown_moduli assigns the unknown modulus p the gcd of the
\* integer evaluations of the fully evaluable relations whose modulus
\* involves p; when the gcd of the moduli of those relations is not exactly
\* p (also when there is no such relation) nothing is assigned and the
\* call fails.
Divides(d, n) == IF d = 0 THEN n = 0 ELSE n % d = 0
IsGcdOf(g, S) ==
    /\ g >= 0
    /\ \A n \in S : Divides(g, n)
    /\ \A d \in 1..(MaxModulus * MaxModulus) : (\A n \in S : Divides(d, n)) => Divides(d, g)
FullyEvaluable(rel, soln) == \A v \in PolyVars(rel.polynomial) : v \in DOMAIN soln
EvaluationAt(rel, soln) ==
    rel.polynomial.c + SeqSum([i \in 1..2 |->
        IF <<"x", "y">>[i] \in DOMAIN soln
            THEN Coef(rel.polynomial, <<"x", "y">>[i]) * soln[<<"x", "y">>[i]] ELSE 0])
InvolvingP(rels, soln) ==
    {j \in DOMAIN rels : rels[j].modulus.kind = "sym" /\ FullyEvaluable(rels[j], soln)}
ModuliIsolateP(rels, soln) ==
    /\ InvolvingP(rels, soln) # {}
    /\ IsGcdOf(1, {rels[j].modulus.val : j \in InvolvingP(rels, soln)})
C21_AssignsGcdOrFails ==
    um_call.state = "called" =>
        LET rels == um_call.problem.relations
            soln == um_call.soln
        IN  IF \A j \in DOMAIN rels : rels[j].modulus.kind # "sym"
                THEN ~um_result.raised /\ um_result.soln = soln
            ELSE IF ModuliIsolateP(rels, soln)
                THEN /\ ~um_result.raised
                     /\ DOMAIN um_result.soln = DOMAIN soln \cup {"p"}
                     /\ \A v \in DOMAIN soln : um_result.soln[v] = soln[v]
                     /\ IsGcdOf(um_result.soln["p"],
                                {EvaluationAt(rels[j], soln) : j \in InvolvingP(rels, soln)})
            ELSE um_result.raised /\ "p" \notin DOMAIN um_result.soln

C21_Witness ==
    /\ um_call.state = "called"
    /\ Cardinality(InvolvingP(um_call.problem.relations, um_call.soln)) = 2
    /\ \A j \in DOMAIN um_call.problem.relations :
           um_call.problem.relations[j].modulus.val > 1
    /\ ~um_result.raised
    /\ um_result.soln["p"] > 1

\* C22 as stated: lattice_from_str(lattice_to_str(B)) = B for every integer
\* matrix B.
C22_RoundTripIsIdentity ==
    flatter.state = "read" => red_basis = Value(flatter.basis)

\* C22, amended: lattice_to_str writes hexadecimal literals and
\* lattice_from_str reads decimal ones.  The string of lattice_to_str, and
\* any output with hexadecimal entries, is refused with ValueError; an
\* output of the same layout with decimal entries is read back as the
\* matrix it shows, zero and negative entries included, when the matrix has
\* a row and a column.
C22_ReadsDecimalWritesHex ==
    /\ flatter.state = "read" => red_basis = Raise("ValueError")
    /\ flatter.state = "flatter" /\ flatter.notation = "hexadecimal"
           => red_basis = Raise("ValueError")
    /\ flatter.state = "flatter" /\ flatter.notation = "decimal"
           /\ flatter.reduced # <<>> /\ flatter.reduced[1] # <<>>
           => red_basis = Value(flatter.reduced)

C22_Witness ==
    /\ flatter.state = "flatter" /\ flatter.notation = "decimal"
    /\ Len(flatter.reduced) = 2
    /\ flatter.reduced[1] = <<-26, 0>>
    /\ flatter.reduced[2][2] = 10
    /\ red_basis = Value(flatter.reduced)

\* C23: every batch that GraphShiftPolys yields is a subset of a suitable
\* input batch, and each monomial that occurs in a retained polynomial is
\* the leading monomial of exactly one retained polynomial; an input batch
\* that is not suitable is rejected with an error.
PolysOf(relations) == {relations[i].polynomial : i \in DOMAIN relations}
LeadsExactlyOne(S) ==
    \A f \in S : \A m \in f.monomials : Cardinality({g \in S : lm(g) = m}) = 1
SuitableSet(S) ==
    /\ \A f, g \in S : f # g => lm(f) # lm(g)
    /\ UNION {f.monomials : f \in S} = {lm(f) : f \in S}
C23_YieldsClosedSuitableSubsets ==
    /\ refinement.state = "yielded" =>
           /\ PolysOf(refined.value) \subseteq PolysOf(refinement.shift_polys)
           /\ Len(refined.value) = Cardinality(PolysOf(refined.value))
           /\ SuitableSet(PolysOf(refinement.shift_polys))
           /\ LeadsExactlyOne(PolysOf(refined.value))
    /\ refinement.state # "none" /\ ~SuitableSet(PolysOf(refinement.shift_polys))
           => refinement.state = "raised" /\ refined = Raise("ValueError")

C23_Witness ==
    /\ refinement.state = "yielded"
    /\ Len(refinement.shift_polys) = 3
    /\ Len(refined.value) = 2
    /\ \E i \in DOMAIN refined.value : Cardinality(refined.value[i].polynomial.monomials) = 2

\* C28: the loop of _refine_shift_polys terminates: a turn that does not
\* stop strictly reduces the number of polynomials, so that after k turns
\* at most len(batch) - k of them are left while the loop goes on; the loop
\* takes at most len(batch) turns, a turn is always possible, and the
\* polynomials it ends with are never empty.
C28_LoopTerminates ==
    /\ refinement.state = "loop" =>
           /\ Len(refinement.polys) + refinement.num_iters <= Len(refinement.shift_polys)
           /\ maximum_closure(Edges(sorted(refinement.polys)),
                              Weights_of(sorted(refinement.polys))) # {}
    /\ refinement.state \in {"loop", "converged", "yielded", "skipped"} =>
           /\ refinement.num_iters <= Len(refinement.shift_polys)
           /\ refinement.polys # <<>>

C28_Witness ==
    /\ refinement.state = "converged"
    /\ Len(refinement.shift_polys) = 3
    /\ refinement.num_iters = 3
    /\ Len(refinement.polys) = 1

\* C24 as stated: with use_graph_optimization not given, graph optimization
\* is enabled unless the modulus multiple is unknown, or unless more than
\* one relation has a coefficient of absolute value below 100 and no
\* unraveled-linearization hint was given.
ModulusMultipleKnown(rels) ==
    \E j \in DOMAIN rels :
        \/ rels[j].modulus.kind = "int"
        \/ rels[j].modulus.kind # "none" /\ PolyVars(rels[j].polynomial) = {}
SmallCoefficients(rel) ==
    {v \in {"x", "y", "c"} : rel.polynomial[v] # 0 /\ Abs(rel.polynomial[v]) < 100}
HintGiven(config) == config.unrav_lin \notin {None, Some(<<>>)}
GraphEnabled == strategies.shift_poly_strategy = "GraphShiftPolys"
C24_DisabledBySeveralSmallRelations ==
    solver_config.state # "none" /\ solver_config.use_graph_optimization = None =>
        (GraphEnabled <=>
            ~(\/ ~ModulusMultipleKnown(solver_config.relations)
              \/ /\ Cardinality({j \in DOMAIN solver_config.relations :
                                    SmallCoefficients(solver_config.relations[j]) # {}}) > 1
                 /\ ~HintGiven(solver_config)))

\* C24, amended: with use_graph_optimization not given, graph optimization
\* is enabled unless the modulus multiple is unknown, or unless some
\* relation has more than one coefficient of absolute value below 100 and
\* no unraveled-linearization hint was given; a non-empty hint with a known
\* modulus multiple always enables it, and the constructor does not fail.
C24_DisabledBySeveralSmallCoefficients ==
    solver_config.state # "none" /\ solver_config.use_graph_optimization = None =>
        /\ solver_config.state = "constructed"
        /\ GraphEnabled <=>
              ~(\/ ~ModulusMultipleKnown(solver_config.relations)
                \/ /\ \E j \in DOMAIN solver_config.relations :
                          Cardinality(SmallCoefficients(solver_config.relations[j])) > 1
                   /\ ~HintGiven(solver_config))
        /\ HintGiven(solver_config) /\ ModulusMultipleKnown(solver_config.relations)
              => GraphEnabled

C24_Witness ==
    /\ solver_config.state = "constructed"
    /\ solver_config.use_graph_optimization = None
    /\ ~HintGiven(solver_config)
    /\ ModulusMultipleKnown(solver_config.relations)
    /\ Len(solver_config.relations) = 2
    /\ \A j \in DOMAIN solver_config.relations :
           Cardinality(SmallCoefficients(solver_config.relations[j])) = 1
    /\ GraphEnabled

\* C26: in the basis of PrimalLatticeBuilder each row beyond the monomial
\* rows has exactly one entry that is not zero, the modulus of one modular
\* relation in the column of that relation, whatever the order of the
\* integer and the modular relations; so the monomial values at a common
\* root of the relations extend to a lattice vector that is zero in every
\* relation column.
NumMonoms == Len(built.value.monomials)
RelationValue(rel, root) ==
    rel.polynomial.x * root["x"] + rel.polynomial.y * root["y"] + rel.polynomial.c
CommonRoots ==
    {root \in [{"x", "y"} -> -MaxBound..MaxBound] :
        \A j \in DOMAIN builder.relations :
            IF builder.relations[j].modulus.kind = "none"
            THEN RelationValue(builder.relations[j], root) = 0
            ELSE RelationValue(builder.relations[j], root) % builder.relations[j].modulus.val = 0}
MonomialValue(m, root) == IF m = "1" THEN 1 ELSE root[m]
ExtendsToLattice(root) ==
    \E mult \in [(NumMonoms + 1)..Len(built.value.basis) -> -3..3] :
        \A col \in (NumMonoms + 1)..(NumMonoms + Len(builder.relations)) :
            SeqSum([i \in 1..Len(built.value.basis) |->
                       (IF i <= NumMonoms
                            THEN MonomialValue(built.value.monomials[i], root)
                            ELSE mult[i]) * built.value.basis[i][col]]) = 0
C26_ModulusRowsHaveOneEntry ==
    builder.state = "run" /\ built.kind = "value" =>
        /\ \A i \in (NumMonoms + 1)..Len(built.value.basis) :
               \E j \in DOMAIN builder.relations :
                   /\ builder.relations[j].modulus.kind = "int"
                   /\ built.value.basis[i][NumMonoms + j] = builder.relations[j].modulus.val
                   /\ \A col \in DOMAIN built.value.basis[i] :
                          col # NumMonoms + j => built.value.basis[i][col] = 0
        /\ \A root \in CommonRoots : ExtendsToLattice(root)

\* C27: weighted_combinations with non-negative weights yields its pairs in
\* strictly increasing (weight, vector) order, the zero vector first, so
\* that the weight never decreases and no vector is yielded twice, and
\* every vector of non-negative integers is yielded in the end.  The run
\* is followed for MaxYields yields; under every choice of one or two
\* positive weights up to MaxWeight a vector of entries 0 and 1 is among
\* them.
YieldedExps == {combinations.yielded[k].exps : k \in DOMAIN combinations.yielded}
UnitVectors == [DOMAIN combinations.weights -> {0, 1}]
YieldsInOrder ==
    /\ combinations.yielded # <<>> =>
           combinations.yielded[1] = [score |-> 0,
                                      exps |-> [i \in DOMAIN combinations.weights |-> 0]]
    /\ \A k \in 2..Len(combinations.yielded) :
           PairLess(combinations.yielded[k - 1], combinations.yielded[k])
C27_YieldsEveryVectorInOrder ==
    /\ YieldsInOrder
    /\ Len(combinations.yielded) = MaxYields => UnitVectors \subseteq YieldedExps

\* C27 as it holds: the order holds for all non-negative weights.  With
\* positive weights each yield is the least pair not yielded before, so
\* the k-th yield is the k-th least pair and every vector has its turn.
\* With a weight that is 0 the k-th yield is k - 1 times the unit vector
\* of the last such weight, and no other vector is ever yielded.
PositiveWeights == \A i \in DOMAIN combinations.weights : combinations.weights[i] > 0
LastZeroWeight ==
    CHOOSE z \in DOMAIN combinations.weights :
        /\ combinations.weights[z] = 0
        /\ \A i \in DOMAIN combinations.weights : combinations.weights[i] = 0 => i <= z
\* A vector among the first k has k - 1 or fewer steps from the zero vector
NearVectors == [DOMAIN combinations.weights -> 0..Len(combinations.yielded)]
C27_YieldsLeastPairsOfPositiveWeights ==
    /\ YieldsInOrder
    /\ PositiveWeights /\ combinations.yielded # <<>> =>
           /\ \A exps \in NearVectors \ YieldedExps :
                  PairLess(combinations.yielded[Len(combinations.yielded)],
                           ScoredPair(combinations.weights, exps))
           /\ Len(combinations.yielded) = MaxYields => UnitVectors \subseteq YieldedExps
    /\ ~PositiveWeights =>
           \A k \in DOMAIN combinations.yielded :
               combinations.yielded[k] =
                   [score |-> 0,
                    exps |-> [i \in DOMAIN combinations.weights |->
                                 IF i = LastZeroWeight THEN k - 1 ELSE 0]]
C27_Witness ==
    /\ combinations.weights = <<2, 1>>
    /\ Len(combinations.yielded) = MaxYields
    /\ <<1, 1>> \in YieldedExps
    /\ \E k \in 2..Len(combinations.yielded) :
           combinations.yielded[k - 1].score = combinations.yielded[k].score

\* C29: every AutomatedSolver that _get_remaining_unknowns creates works on
\* a problem whose ring is the ring of its parent without the variables
\* the partial solution assigns, and these are fewer; so there are never
\* more nested solvers than the first problem has variables.
SolverFrames == SelectSeq(stack, LAMBDA f : f.cls = "AutomatedSolver")
Unnamed(call_result) ==
    {k \in DOMAIN call_result.inferred_moduli :
        /\ call_result.inferred_moduli[k] # NoInfo
        /\ call_result.inferred_moduli[k][1].is_symbolic
        /\ ~call_result.inferred_moduli[k][1].has_value}
C30_PicksFreshNames ==
    parsed.called =>
        /\ parsed.result.exc # "diverges"
        /\ parsed.result.exc = "" /\ parsed.result.expect_modulus =>
               /\ \A k \in Unnamed(parsed.result) :
                      /\ parsed.result.moduli[k] \notin parsed.result.ring_vars \cup {""}
                      /\ parsed.result.named_moduli[k] # NoInfo
                      /\ parsed.result.named_moduli[k][1].value = parsed.result.moduli[k]
               /\ \A j, k \in Unnamed(parsed.result) :
                      j # k /\ parsed.call.list_lengths # {} =>
                          parsed.result.moduli[j] # parsed.result.moduli[k]

====
